---------------------------- MODULE Spec2Model ----------------------------
(***************************************************************************)
(* State-machine model of the RollupTileGrid Lightning web component       *)
(* (src/unnamed/part_000) and of the earlier copy of the same component    *)
(* kept in src/lwc/rollupTileGrid/rollupTileGrid.js.                       *)
(*                                                                         *)
(* JavaScript strings that the code trims, upper-cases or tests for        *)
(* emptiness are sequences of one-character strings; null / undefined is   *)
(* the one-element sequence NULL, which is no character sequence.  Messages*)
(* the code only stores and shows are sequences of message parts.          *)
(***************************************************************************)
EXTENDS Integers, Sequences, FiniteSets, TLC

(***************************** bounds **************************************)
\* at most this many getRollup calls are outstanding on the page at once
MaxLoads == 5
\* the clock advances in steps of LOAD_TIMEOUT_MS / TicksPerTimeout
TicksPerTimeout == 2
\* the number of steps (callbacks, clicks, settlements, timer events) of one run
MaxSteps == 6
\* the saveConfig calls of the configuration screen that may be in flight
MaxSaves == 2
\* the option-loading operations of the configuration screen (initialization,
\* dependent reloads) that may be in flight
MaxCalls == 2
\* the number of steps of one run in which the configuration screen acts
MaxScreenSteps == 9

(************************* program constants *******************************)
MAX_ROWS == 5
MAX_COLUMNS == 5
MAX_TILES == MAX_ROWS * MAX_COLUMNS
LOAD_TIMEOUT_MS == 15000
TickMs == LOAD_TIMEOUT_MS \div TicksPerTimeout

(***************************** JS values ***********************************)
NULL == <<"<null>">>

\* JS truthiness of a string-or-null value
Truthy(s) == s # NULL /\ s # <<>>

IsSpace(c) == c \in {" ", "\t", "\n"}

RECURSIVE TrimLeft(_)
TrimLeft(s) ==
    IF s = <<>> THEN <<>>
    ELSE IF IsSpace(Head(s)) THEN TrimLeft(Tail(s)) ELSE s

RECURSIVE TrimRight(_)
TrimRight(s) ==
    IF s = <<>> THEN <<>>
    ELSE IF IsSpace(s[Len(s)]) THEN TrimRight(SubSeq(s, 1, Len(s) - 1)) ELSE s

\* String.prototype.trim
Trim(s) == TrimRight(TrimLeft(s))

UpperOf ==
    ("a" :> "A") @@ ("b" :> "B") @@ ("c" :> "C") @@ ("d" :> "D") @@ ("e" :>
    "E") @@ ("f" :> "F") @@ ("g" :> "G") @@ ("h" :> "H") @@ ("i" :> "I") @@
    ("j" :> "J") @@ ("k" :> "K") @@ ("l" :> "L") @@ ("m" :> "M") @@ ("n" :>
    "N") @@ ("o" :> "O") @@ ("p" :> "P") @@ ("q" :> "Q") @@ ("r" :> "R") @@
    ("s" :> "S") @@ ("t" :> "T") @@ ("u" :> "U") @@ ("v" :> "V") @@ ("w" :>
    "W") @@ ("x" :> "X") @@ ("y" :> "Y") @@ ("z" :> "Z")

UpperChar(c) == IF c \in DOMAIN UpperOf THEN UpperOf[c] ELSE c

\* String.prototype.toUpperCase
ToUpperCase(s) == [k \in 1..Len(s) |-> UpperChar(s[k])]

\* Array.prototype.join(', ') on a sequence of message parts
RECURSIVE Join(_)
Join(parts) ==
    IF parts = <<>> THEN <<>>
    ELSE IF Len(parts) = 1 THEN parts
    ELSE <<Head(parts), ", ">> \o Join(Tail(parts))

Range(s) == {s[k] : k \in 1..Len(s)}

(*********************** aggregation type catalog **************************)
SUM == <<"S","U","M">>
AVERAGE == <<"A","V","E","R","A","G","E">>
AVG == <<"A","V","G">>
MAX == <<"M","A","X">>
MIN == <<"M","I","N">>
COUNT == <<"C","O","U","N","T">>
COUNT_DISTINCT == COUNT \o <<"_","D","I","S","T","I","N","C","T">>
CONCATENATE == <<"C","O","N","C","A","T","E","N","A","T","E">>
CONCATENATE_DISTINCT == CONCATENATE \o <<"_","D","I","S","T","I","N","C","T">>
FIRST == <<"F","I","R","S","T">>
LAST == <<"L","A","S","T">>

VALID_AGGREGATION_TYPES ==
    {SUM, AVERAGE, MAX, MIN, COUNT, COUNT_DISTINCT, CONCATENATE,
     CONCATENATE_DISTINCT, FIRST, LAST}

NUMERIC_TYPES == {SUM, AVERAGE, MAX, MIN, COUNT, COUNT_DISTINCT}
NUMERIC_FIELD_AGG_TYPES == {SUM, AVERAGE, MAX, MIN}
TEXT_FIELD_AGG_TYPES == {CONCATENATE, CONCATENATE_DISTINCT}

NUMERIC_FIELD_ALLOWED_AGG_TYPES ==
    {SUM, AVERAGE, MAX, MIN, COUNT, COUNT_DISTINCT, FIRST, LAST}
TEXT_FIELD_ALLOWED_AGG_TYPES ==
    {CONCATENATE, CONCATENATE_DISTINCT, COUNT, COUNT_DISTINCT, FIRST, LAST}
DATE_FIELD_ALLOWED_AGG_TYPES == {MAX, MIN, COUNT, COUNT_DISTINCT}

BASE_AGGREGATION_OPTIONS ==
    << [label |-> "Average", value |-> AVERAGE],
       [label |-> "Concatenate", value |-> CONCATENATE],
       [label |-> "Concatenate Distinct", value |-> CONCATENATE_DISTINCT],
       [label |-> "Count", value |-> COUNT],
       [label |-> "Count Distinct", value |-> COUNT_DISTINCT],
       [label |-> "Max", value |-> MAX],
       [label |-> "Min", value |-> MIN],
       [label |-> "Sum", value |-> SUM] >>

\* a variant that leaves AVG as it is
canonicalOf_keepingAvg(upper) ==
    IF upper = <<>> THEN NULL ELSE upper

\* the canonical form of a trimmed, upper-cased type
canonicalOf(upper) ==
    IF upper = <<>> THEN NULL
    ELSE IF upper = AVG THEN AVERAGE ELSE upper

normalizeAggTypeValue(raw) ==
    IF raw = NULL THEN NULL ELSE canonicalOf(ToUpperCase(Trim(raw)))

categoryOfCanonical(canonical) ==
    IF ~Truthy(canonical) THEN "unknown"
    ELSE IF canonical \in NUMERIC_FIELD_AGG_TYPES THEN "numeric"
    ELSE IF canonical \in TEXT_FIELD_AGG_TYPES THEN "text"
    ELSE "unknown"

inferFieldCategoryFromAggregationType(rawAggType) ==
    categoryOfCanonical(normalizeAggTypeValue(rawAggType))

\* a variant in which the currency and percent flags outrank the date flag
resolveFieldCategory_currencyFirst(tile) ==
    IF tile.isCurrency \/ tile.isPercent THEN "numeric"
    ELSE IF tile.isDate THEN "date"
    ELSE IF tile.fieldCategory # "" THEN tile.fieldCategory ELSE "unknown"

resolveFieldCategory(tile) ==
    IF tile.isDate THEN "date"
    ELSE IF tile.isCurrency \/ tile.isPercent THEN "numeric"
    ELSE IF tile.fieldCategory # "" THEN tile.fieldCategory ELSE "unknown"

\* the empty set stands for the code's null: no filtering
getAllowedAggregationsForCategory(category) ==
    IF category = "numeric" THEN NUMERIC_FIELD_ALLOWED_AGG_TYPES
    ELSE IF category = "text" THEN TEXT_FIELD_ALLOWED_AGG_TYPES
    ELSE IF category = "date" THEN DATE_FIELD_ALLOWED_AGG_TYPES
    ELSE {}

validOrSum(canonical) ==
    IF ~Truthy(canonical) THEN SUM
    ELSE IF canonical \in VALID_AGGREGATION_TYPES THEN canonical
    ELSE SUM

\* a variant without the look-up in the list of kinds
normalizeAggregationType_unchecked(raw) ==
    IF Truthy(normalizeAggTypeValue(raw)) THEN normalizeAggTypeValue(raw) ELSE SUM

normalizeAggregationType(raw) == validOrSum(normalizeAggTypeValue(raw))

(**************************** more JS helpers ******************************)
IsDigit(c) == c \in {"0","1","2","3","4","5","6","7","8","9"}

DigitValue(c) ==
    CASE c = "0" -> 0 [] c = "1" -> 1 [] c = "2" -> 2 [] c = "3" -> 3
      [] c = "4" -> 4 [] c = "5" -> 5 [] c = "6" -> 6 [] c = "7" -> 7
      [] c = "8" -> 8 [] c = "9" -> 9 [] OTHER -> 0

RECURSIVE DigitPrefix(_)
DigitPrefix(s) ==
    IF s = <<>> \/ ~IsDigit(Head(s)) THEN <<>>
    ELSE <<Head(s)>> \o DigitPrefix(Tail(s))

RECURSIVE DigitsValue(_)
DigitsValue(d) ==
    IF d = <<>> THEN 0
    ELSE 10 * DigitsValue(SubSeq(d, 1, Len(d) - 1)) + DigitValue(d[Len(d)])

\* parseInt(value, 10): leading white space, an optional sign, then the
\* longest run of digits; NaN when there is none
IntOfDigits(neg, d) ==
    IF d = <<>> THEN [nan |-> TRUE, n |-> 0]
    ELSE [nan |-> FALSE, n |-> IF neg THEN 0 - DigitsValue(d) ELSE DigitsValue(d)]

IntOfTrimmed(t) ==
    IntOfDigits(t # <<>> /\ Head(t) = "-",
                DigitPrefix(IF t # <<>> /\ Head(t) \in {"-", "+"} THEN Tail(t) ELSE t))

ParseInt(value) ==
    IF value = NULL THEN [nan |-> TRUE, n |-> 0] ELSE IntOfTrimmed(TrimLeft(value))

LowerOf ==
    ("A" :> "a") @@ ("B" :> "b") @@ ("C" :> "c") @@ ("D" :> "d") @@ ("E" :>
    "e") @@ ("F" :> "f") @@ ("G" :> "g") @@ ("H" :> "h") @@ ("I" :> "i") @@
    ("J" :> "j") @@ ("K" :> "k") @@ ("L" :> "l") @@ ("M" :> "m") @@ ("N" :>
    "n") @@ ("O" :> "o") @@ ("P" :> "p") @@ ("Q" :> "q") @@ ("R" :> "r") @@
    ("S" :> "s") @@ ("T" :> "t") @@ ("U" :> "u") @@ ("V" :> "v") @@ ("W" :>
    "w") @@ ("X" :> "x") @@ ("Y" :> "y") @@ ("Z" :> "z")

LowerChar(c) == IF c \in DOMAIN LowerOf THEN LowerOf[c] ELSE c

IsLower(c) == c \in DOMAIN UpperOf
IsUpper(c) == c \in DOMAIN LowerOf

\* s.replace(/__c$/i, '') and s.replace(/__x$/i, '')
StripSuffix(s, last) ==
    IF Len(s) >= 3 /\ s[Len(s) - 2] = "_" /\ s[Len(s) - 1] = "_"
       /\ LowerChar(s[Len(s)]) = last
    THEN SubSeq(s, 1, Len(s) - 3) ELSE s

\* s.split(sep) for a one-character or two-character separator
RECURSIVE Split(_, _, _)
Split(s, sep, cur) ==
    IF s = <<>> THEN <<cur>>
    ELSE IF Len(s) >= Len(sep) /\ SubSeq(s, 1, Len(sep)) = sep
         THEN <<cur>> \o Split(SubSeq(s, Len(sep) + 1, Len(s)), sep, <<>>)
         ELSE Split(Tail(s), sep, Append(cur, Head(s)))

\* .replace(/_/g, ' ')
UnderscoresToSpaces(s) == [k \in 1..Len(s) |-> IF s[k] = "_" THEN " " ELSE s[k]]

\* .replace(/([a-z])([A-Z])/g, '$1 $2')
RECURSIVE SpaceCamel(_)
SpaceCamel(s) ==
    IF Len(s) < 2 THEN s
    ELSE IF IsLower(s[1]) /\ IsUpper(s[2])
         THEN <<s[1], " ">> \o SpaceCamel(Tail(s))
         ELSE <<s[1]>> \o SpaceCamel(Tail(s))

TitleWord(w) ==
    IF w = <<>> THEN <<>>
    ELSE <<UpperChar(w[1])>> \o [k \in 1..(Len(w) - 1) |-> LowerChar(w[k + 1])]

RECURSIVE JoinWords(_)
JoinWords(ws) ==
    IF ws = <<>> THEN <<>>
    ELSE IF Len(ws) = 1 THEN TitleWord(ws[1])
    ELSE TitleWord(ws[1]) \o <<" ">> \o JoinWords(Tail(ws))

(******************************* state *************************************)
\* the grid instances placed on the page
Inst == {"A", "B"}

VARIABLES
    build,            \* which copy of the component the page runs
    cfg,              \* the @api properties of each instance
    listeners,        \* window listeners, in registration order
    instanceId,       \* _instanceId of each instance, 0 before the first connect
    NEXT_INSTANCE_ID, \* the module-level id generator
    initialized,      \* _initialized
    tiles,            \* this.tiles
    tileTimeouts,     \* _tileTimeouts: tile index -> timer id, 0 when absent
    loads,            \* outstanding loadTile calls with their timers and requests
    ops,              \* the calls of the last step, in order: <<what, instance, tile>>
    steps,            \* the number of steps taken so far
    screen            \* the fields of the Relationship Configuration screen

vars ==
    <<build, cfg, listeners, instanceId, NEXT_INSTANCE_ID, initialized, tiles,
      tileTimeouts, loads, ops, steps, screen>>

LoadIds == 1..MaxLoads

\* a free slot of the table of outstanding calls
NoRequest ==
    [parentId |-> NULL, childObjectApiName |-> NULL,
     relationshipFieldApiName |-> NULL, aggregateFieldApiName |-> NULL,
     aggregateType |-> NULL, filterCondition |-> NULL,
     grandchildObjectApiName |-> NULL, grandchildRelationshipFieldApiName |-> NULL]

NoLoad ==
    [inst |-> "", index |-> 0, phase |-> "free", timer |-> "none",
     remaining |-> 0, current |-> FALSE, request |-> NoRequest]

connected(a) == a \in Range(listeners)

(************************** layout helpers *********************************)
\* a variant without the upper limit
normalizeDimension_withoutMax(value, min, max) ==
    IF ParseInt(value).nan \/ ParseInt(value).n < min THEN min
    ELSE ParseInt(value).n

normalizeDimension(value, min, max) ==
    LET num == ParseInt(value)
    IN  IF num.nan \/ num.n < min THEN min
        ELSE IF num.n > max THEN max
        ELSE num.n

normalizedRows(a) == normalizeDimension(cfg[a].rows, 1, MAX_ROWS)

normalizedColumns(a) == normalizeDimension(cfg[a].columns, 1, MAX_COLUMNS)

Min2(x, y) == IF x <= y THEN x ELSE y

(*********************** grandchild-mode helpers ***************************)
\* x && x.toString().trim(), read for its truthiness
TrimmedTruthy(x) == Truthy(x) /\ Trim(x) # <<>>

\* a variant for which one grandchild property is enough
isGrandchildMode_either(a) ==
    \/ TrimmedTruthy(cfg[a].grandchildObjectApiName)
    \/ TrimmedTruthy(cfg[a].grandchildRelationshipFieldApiName)

isGrandchildMode(a) ==
    /\ TrimmedTruthy(cfg[a].grandchildObjectApiName)
    /\ TrimmedTruthy(cfg[a].grandchildRelationshipFieldApiName)

aggregateObjectApiNameForLabel(a) ==
    IF isGrandchildMode(a) /\ Truthy(cfg[a].grandchildObjectApiName)
    THEN cfg[a].grandchildObjectApiName
    ELSE cfg[a].childObjectApiName

(********************* config error shared by the tiles ********************)
\* a variant that forgets the child relationship field
missingProperties_withoutRelationship(a) ==
    (IF ~Truthy(cfg[a].childObjectApiName) THEN <<"Child Object">> ELSE <<>>)
    \o (IF TrimmedTruthy(cfg[a].grandchildRelationshipFieldApiName)
           /\ ~Truthy(cfg[a].grandchildObjectApiName)
        THEN <<"Grandchild Object">> ELSE <<>>)
    \o (IF TrimmedTruthy(cfg[a].grandchildObjectApiName)
           /\ ~Truthy(cfg[a].grandchildRelationshipFieldApiName)
        THEN <<"Relationship Field (lookup on grandchild)">> ELSE <<>>)

missingProperties(a) ==
    LET hasAnyGrandchildConfig ==
            \/ TrimmedTruthy(cfg[a].grandchildObjectApiName)
            \/ TrimmedTruthy(cfg[a].grandchildRelationshipFieldApiName)
    IN  (IF ~Truthy(cfg[a].childObjectApiName)
            THEN <<"Child Object">> ELSE <<>>)
        \o (IF ~Truthy(cfg[a].relationshipFieldApiName)
            THEN <<"Relationship Field (lookup on child)">> ELSE <<>>)
        \o (IF hasAnyGrandchildConfig /\ ~Truthy(cfg[a].grandchildObjectApiName)
            THEN <<"Grandchild Object">> ELSE <<>>)
        \o (IF hasAnyGrandchildConfig
               /\ ~Truthy(cfg[a].grandchildRelationshipFieldApiName)
            THEN <<"Relationship Field (lookup on grandchild)">> ELSE <<>>)

globalConfigError_current(a) ==
    LET missing == missingProperties(a)
    IN  IF missing = <<>> THEN NULL
        ELSE <<"Rollup Tile Grid is not fully configured yet. Missing: ">>
             \o Join(missing)
             \o <<". In the Lightning App Builder, set these properties (and at minimum configure \"Tile 1 Aggregate Field\") before using this component.">>

\* the earlier copy: no grandchild path, and recordId is required
globalConfigError_legacy(a) ==
    LET missing ==
            (IF ~Truthy(cfg[a].childObjectApiName)
                THEN <<"Child Object">> ELSE <<>>)
            \o (IF ~Truthy(cfg[a].relationshipFieldApiName)
                THEN <<"Relationship Field">> ELSE <<>>)
            \o (IF ~Truthy(cfg[a].recordId) THEN <<"recordId">> ELSE <<>>)
    IN  IF missing = <<>> THEN NULL
        ELSE <<"Rollup tile is not fully configured. Missing: ">>
             \o Join(missing)
             \o <<". Open the Lightning App Builder and fill in these properties.">>

globalConfigError(a) ==
    IF build = "legacy" THEN globalConfigError_legacy(a)
    ELSE globalConfigError_current(a)

\* childObjectLabelSingular, stage by stage: the suffix is stripped, the
\* namespace dropped, underscores and camel case spaced, the words title-cased
labelOfTitled(titled) == IF titled = <<>> THEN <<"record">> ELSE titled

labelOfSpaced(spaced) ==
    IF spaced = <<>> THEN <<"record">>
    ELSE labelOfTitled(Trim(JoinWords(Split(spaced, <<" ">>, <<>>))))

labelOfParts(stripped, parts) ==
    labelOfSpaced(Trim(SpaceCamel(UnderscoresToSpaces(
        IF Len(parts) > 1 THEN parts[2] ELSE stripped))))

labelOfStripped(stripped) ==
    labelOfParts(stripped, Split(stripped, <<"_", "_">>, <<>>))

labelOfApiName(apiName) ==
    IF ~Truthy(apiName) THEN <<"record">>
    ELSE labelOfStripped(StripSuffix(StripSuffix(Trim(apiName), "c"), "x"))

childObjectLabelSingular(a) ==
    labelOfApiName(IF build = "legacy" THEN cfg[a].childObjectApiName
                   ELSE aggregateObjectApiNameForLabel(a))

(************************* tile view model *********************************)
\* parseFloat: an optional sign, digits, and an optional fraction; the text
\* of the number read, or <<>> for NaN
FloatText(sign, whole, frac) ==
    IF whole = <<>> /\ frac = <<>> THEN <<>>
    ELSE (IF sign = <<"-">> THEN sign ELSE <<>>) \o whole
         \o (IF frac = <<>> THEN <<>> ELSE <<".">> \o frac)

FractionOf(rest) ==
    IF rest # <<>> /\ Head(rest) = "." THEN DigitPrefix(Tail(rest)) ELSE <<>>

FloatOfWhole(sign, body, whole) ==
    FloatText(sign, whole, FractionOf(SubSeq(body, Len(whole) + 1, Len(body))))

FloatOfBody(sign, body) == FloatOfWhole(sign, body, DigitPrefix(body))

FloatOfTrimmed(t) ==
    IF t # <<>> /\ Head(t) \in {"-", "+"}
    THEN FloatOfBody(<<Head(t)>>, Tail(t)) ELSE FloatOfBody(<<>>, t)

ParseFloatText(value) ==
    IF value = NULL THEN <<>> ELSE FloatOfTrimmed(TrimLeft(value))

\* new Intl.NumberFormat(LOCALE, {maximumFractionDigits}).format(num): the
\* locale's formatting is outside the component; the result names its inputs
NumberFormat(numText, fractionDigits) ==
    <<"NumberFormat(">> \o numText \o <<";", ToString(fractionDigits), ")">>

formatDisplayValue(tile, isNumericAggregate, num, digits) ==
    IF tile.value = NULL \/ tile.value = <<>> THEN <<"-">>
    ELSE IF ~isNumericAggregate THEN tile.value
    ELSE IF num = <<>> THEN tile.value
    ELSE IF digits.nan \/ digits.n < 0 \/ digits.n > 100 THEN tile.value
    ELSE IF tile.isCurrency THEN <<"$">> \o NumberFormat(num, digits.n)
    ELSE IF tile.isPercent THEN NumberFormat(num, digits.n) \o <<"%">>
    ELSE NumberFormat(num, digits.n)

displayValueOf(tile, aggregateType) ==
    formatDisplayValue(tile,
        aggregateType \in NUMERIC_TYPES /\ ~(tile.isDate /\ aggregateType \in {MIN, MAX}),
        ParseFloatText(tile.value),
        IF tile.decimalPlaces # NULL THEN ParseInt(tile.decimalPlaces)
        ELSE [nan |-> FALSE, n |-> 2])

\* Number(recordCount) for the digit strings and null the service returns
recordLabel(recordCount, objectLabel, count) ==
    IF recordCount # <<>> /\ DigitPrefix(recordCount) # recordCount
    THEN recordCount \o <<" ">> \o objectLabel \o <<" ", "records">>
    ELSE <<ToString(count), " ">> \o objectLabel
         \o <<" ", IF count = 1 THEN "record" ELSE "records">>

summaryRecordLabelOf(a, tile) ==
    IF tile.recordCount = NULL THEN NULL
    ELSE recordLabel(tile.recordCount, childObjectLabelSingular(a),
                     IF tile.recordCount = <<>> THEN 0
                     ELSE DigitsValue(tile.recordCount))

fieldLabelForSummaryOf(tile) ==
    LET serverLabel == IF Truthy(tile.fieldLabel) THEN Trim(tile.fieldLabel) ELSE <<>>
        explicitLabel == IF Truthy(tile.label) THEN Trim(tile.label) ELSE <<>>
        apiName == IF Truthy(tile.aggregateFieldApiName)
                   THEN Trim(tile.aggregateFieldApiName) ELSE <<>>
    IN  IF serverLabel # <<>> THEN serverLabel
        ELSE IF explicitLabel # <<>> THEN explicitLabel
        ELSE IF apiName # <<>> THEN apiName
        ELSE <<"this field">>

friendlyAggregationLabel(aggregateType) ==
    CASE aggregateType \in {AVERAGE, AVG} -> "Average"
      [] aggregateType = COUNT -> "Count"
      [] aggregateType = COUNT_DISTINCT -> "Distinct count"
      [] aggregateType = MAX -> "Maximum"
      [] aggregateType = MIN -> "Minimum"
      [] aggregateType = FIRST -> "First value"
      [] aggregateType = LAST -> "Last value"
      [] aggregateType = CONCATENATE -> "Combined values"
      [] aggregateType = CONCATENATE_DISTINCT -> "Unique combined values"
      [] OTHER -> "Sum"

\* a variant that offers every option whatever the category
aggregationMenuOptionsOf_unfiltered(allowedSet, aggregateType) ==
    [k \in 1..Len(BASE_AGGREGATION_OPTIONS) |->
        [label |-> BASE_AGGREGATION_OPTIONS[k].label,
         value |-> BASE_AGGREGATION_OPTIONS[k].value,
         isSelected |-> BASE_AGGREGATION_OPTIONS[k].value = aggregateType,
         itemClass |-> IF BASE_AGGREGATION_OPTIONS[k].value = aggregateType
                       THEN "slds-dropdown__item slds-is-selected"
                       ELSE "slds-dropdown__item",
         ariaChecked |-> IF BASE_AGGREGATION_OPTIONS[k].value = aggregateType
                         THEN "true" ELSE "false"]]

\* the menu options: the base options the category allows, in base order, the
\* one of the current type marked; the kept options and the type are
\* evaluated once
aggregationMenuOptionsOf(allowedSet, aggregateType) ==
    CHOOSE options \in
        { [k \in 1..Len(keep) |->
              [label |-> keep[k].label, value |-> keep[k].value,
               isSelected |-> keep[k].value = selected,
               itemClass |-> IF keep[k].value = selected
                             THEN "slds-dropdown__item slds-is-selected"
                             ELSE "slds-dropdown__item",
               ariaChecked |-> IF keep[k].value = selected
                               THEN "true" ELSE "false"]] :
          keep \in { SelectSeq(BASE_AGGREGATION_OPTIONS,
                               LAMBDA opt : allowedSet = {} \/ opt.value \in allowedSet) },
          selected \in {aggregateType} } : TRUE

\* the earlier copy knows no date category
resolveFieldCategory_legacy(tile) ==
    IF tile.isCurrency \/ tile.isPercent THEN "numeric"
    ELSE IF tile.fieldCategory # "" THEN tile.fieldCategory ELSE "unknown"

summaryLabelOf(head, summaryRecordLabel) ==
    IF Truthy(summaryRecordLabel)
    THEN head \o <<" across ">> \o summaryRecordLabel ELSE head

withDerivedFields(tile, aggregateType, fieldCategory, summaryRecordLabel) ==
    [tile EXCEPT
        !.aggregateType = aggregateType,
        !.fieldCategory = fieldCategory,
        !.displayValue = displayValueOf(tile, aggregateType),
        !.hasRecordCount = (tile.recordCount # NULL),
        !.summaryRecordLabel = summaryRecordLabel,
        !.summaryLabel =
            summaryLabelOf(
                <<friendlyAggregationLabel(aggregateType), " of '">>
                    \o fieldLabelForSummaryOf(tile) \o <<"'">>,
                summaryRecordLabel),
        !.aggregationMenuOptions =
            aggregationMenuOptionsOf(
                getAllowedAggregationsForCategory(fieldCategory), aggregateType),
        !.gearMenuClass =
            IF tile.isAggregationMenuOpen
            THEN "st-rollup-gear-menu slds-dropdown-trigger slds-dropdown-trigger_click slds-is-open"
            ELSE "st-rollup-gear-menu slds-dropdown-trigger slds-dropdown-trigger_click"]

normalizedOrSum(norm) == IF Truthy(norm) THEN norm ELSE SUM

recomputeTileDerivedFields(a, tile) ==
    withDerivedFields(tile,
        normalizedOrSum(normalizeAggTypeValue(
            IF Truthy(tile.aggregateType) THEN tile.aggregateType
            ELSE IF Truthy(tile.initialAggregationType)
                 THEN tile.initialAggregationType ELSE SUM)),
        IF build = "legacy" THEN resolveFieldCategory_legacy(tile)
        ELSE resolveFieldCategory(tile),
        summaryRecordLabelOf(a, tile))

\* this[`tile${index}${name}`]: undefined for a property never set
tileProp(a, index, name) ==
    IF index \in DOMAIN cfg[a].tileProps THEN cfg[a].tileProps[index][name] ELSE NULL

buildInitialTileConfig(a, index) ==
    LET initialAggregationType ==
            normalizeAggregationType(tileProp(a, index, "InitialAggregationType"))
        label == tileProp(a, index, "Label")
    IN  recomputeTileDerivedFields(a,
            [index |-> index,
             label |-> IF Truthy(label) THEN label ELSE <<"Tile ", ToString(index)>>,
             aggregateFieldApiName |-> tileProp(a, index, "AggregateFieldApiName"),
             initialAggregationType |-> initialAggregationType,
             filterCondition |-> tileProp(a, index, "FilterCondition"),
             decimalPlaces |-> IF cfg[a].decimalPlaces # NULL
                               THEN cfg[a].decimalPlaces ELSE <<"2">>,
             fieldCategory |->
                 inferFieldCategoryFromAggregationType(initialAggregationType),
             aggregateType |-> initialAggregationType,
             isLoading |-> FALSE,
             error |-> NULL,
             value |-> NULL,
             recordCount |-> NULL,
             isCurrency |-> FALSE,
             isPercent |-> FALSE,
             isDate |-> FALSE,
             fieldLabel |-> NULL,
             isAggregationMenuOpen |-> FALSE,
             displayValue |-> <<"-">>,
             hasRecordCount |-> FALSE,
             summaryRecordLabel |-> NULL,
             summaryLabel |-> NULL,
             aggregationMenuOptions |-> <<>>,
             gearMenuClass |-> ""])

\* a variant whose loop runs one slot too far
initializeTilesFromConfig_oneMore(a) ==
    [index \in 1..(Min2(normalizedRows(a) * normalizedColumns(a), MAX_TILES) + 1) |->
        buildInitialTileConfig(a, index)]

initializeTilesFromConfig(a) ==
    LET maxSlots == Min2(normalizedRows(a) * normalizedColumns(a), MAX_TILES)
    IN  [index \in 1..maxSlots |-> buildInitialTileConfig(a, index)]

(************************* messages shown in tiles *************************)
TimeoutMsg ==
    <<"Timed out while loading rollup. Please refresh the page or contact your admin.">>

NoDataMsg == <<"No data was returned for this rollup.">>

UnexpectedLoadMsg == <<"Unexpected error while loading rollup.">>

RenderErrorMsg ==
    <<"Unexpected error while rendering these rollup tiles. Please check the configuration and try again.">>

tileConfigMsg(index) ==
    <<"Tile ", ToString(index), " is not fully configured. Set \"Tile ",
      ToString(index), " Aggregate Field\" in the Lightning App Builder.">>

(********************** the handlers' working state ************************)
\* The handlers run to completion on one thread.  A handler is a function
\* from the component state it reads to the state it leaves:
\*   [tiles, tileTimeouts, loads, ops]
\* together with full, set when a call would need more than MaxLoads
\* outstanding service calls at once
World ==
    [tiles |-> tiles, tileTimeouts |-> tileTimeouts, loads |-> loads,
     ops |-> <<>>, full |-> FALSE]

Called(w, what, a, index) == [w EXCEPT !.ops = Append(@, <<what, a, index>>)]

TimeoutOf(w, a, index) ==
    IF index \in DOMAIN w.tileTimeouts[a] THEN w.tileTimeouts[a][index] ELSE 0

\* clearTimeout(id): a pending timer is cancelled, anything else is left alone
clearTimeout(w, id) ==
    IF id \in LoadIds /\ w.loads[id].timer = "pending"
    THEN [w EXCEPT !.loads[id].timer = "cancelled"]
    ELSE w

\* delete this._tileTimeouts[index]
deleteTimeout(w, a, index) ==
    [w EXCEPT !.tileTimeouts[a] =
        [k \in (DOMAIN @) \ {index} |-> @[k]]]

\* const id = this._tileTimeouts[index]; if (id) { clearTimeout(id); delete ... }
clearTileTimeout(w, a, index) ==
    LET id == TimeoutOf(w, a, index)
    IN  IF id # 0 THEN deleteTimeout(clearTimeout(w, id), a, index) ELSE w

\* this.tiles = this.tiles.map(tile => tile.index === index ? recompute({...tile, ...patch}) : tile)
\* patch(tile) is the tile with the handler's fields written
\* a variant that leaves the value and the metadata on the tile
ClearedTile_keepingData(tile, isLoading, error) ==
    [tile EXCEPT !.isLoading = isLoading, !.error = error]

ClearedTile(tile, isLoading, error) ==
    [tile EXCEPT !.isLoading = isLoading, !.error = error, !.value = NULL,
                 !.recordCount = NULL, !.isCurrency = FALSE, !.isPercent = FALSE,
                 !.isDate = FALSE, !.fieldLabel = NULL]

setTileCleared(w, a, index, isLoading, error) ==
    [w EXCEPT !.tiles[a] =
        [k \in DOMAIN @ |->
            IF @[k].index = index
            THEN recomputeTileDerivedFields(a, ClearedTile(@[k], isLoading, error))
            ELSE @[k]]]

FreeIds(w) == {id \in LoadIds : w.loads[id].phase = "free"}

SmallestFree(w) == CHOOSE id \in FreeIds(w) : \A other \in FreeIds(w) : id <= other

\* the request handed to getRollup
requestOf(a, tile, aggregateTypeToUse) ==
    [parentId |-> cfg[a].recordId,
     childObjectApiName |-> cfg[a].childObjectApiName,
     relationshipFieldApiName |-> cfg[a].relationshipFieldApiName,
     aggregateFieldApiName |-> tile.aggregateFieldApiName,
     aggregateType |-> aggregateTypeToUse,
     filterCondition |-> tile.filterCondition,
     grandchildObjectApiName |->
        IF build # "legacy" /\ isGrandchildMode(a)
        THEN cfg[a].grandchildObjectApiName ELSE NULL,
     grandchildRelationshipFieldApiName |->
        IF build # "legacy" /\ isGrandchildMode(a)
        THEN cfg[a].grandchildRelationshipFieldApiName ELSE NULL]

aggregateTypeToUse(tile) ==
    LET chosen == IF Truthy(tile.aggregateType) THEN tile.aggregateType
                  ELSE IF Truthy(tile.initialAggregationType)
                       THEN tile.initialAggregationType ELSE SUM
    IN  IF build = "legacy" /\ chosen = COUNT THEN COUNT \o <<"(", ")">> ELSE chosen

\* loadTile from the new timer to the await: the timer is started and stored
\* under the tile's index, and getRollup is called
\* a variant that starts no timer for the load
issueLoad_withoutTimer(w, a, index, id) ==
    Called(
        [w EXCEPT
            !.loads = [k \in LoadIds |->
                IF k = id
                THEN [inst |-> a, index |-> index, phase |-> "awaiting",
                      timer |-> "cancelled", remaining |-> 0,
                      current |-> TRUE,
                      request |-> requestOf(a, w.tiles[a][index],
                                            aggregateTypeToUse(w.tiles[a][index]))]
                ELSE IF @[k].inst = a /\ @[k].index = index
                     THEN [@[k] EXCEPT !.current = FALSE]
                     ELSE @[k]]],
        "getRollup", a, index)

issueLoad(w, a, index, id) ==
    Called(
        [w EXCEPT
            !.loads = [k \in LoadIds |->
                IF k = id
                THEN [inst |-> a, index |-> index, phase |-> "awaiting",
                      timer |-> "pending", remaining |-> LOAD_TIMEOUT_MS,
                      current |-> TRUE,
                      request |-> requestOf(a, w.tiles[a][index],
                                            aggregateTypeToUse(w.tiles[a][index]))]
                ELSE IF @[k].inst = a /\ @[k].index = index
                     THEN [@[k] EXCEPT !.current = FALSE]
                     ELSE @[k]],
            !.tileTimeouts[a] =
                [k \in (DOMAIN @) \cup {index} |-> IF k = index THEN id ELSE @[k]]],
        "getRollup", a, index)

\* the tile is reset to loading before the timer and the request
resetAndIssue(w, a, index) ==
    issueLoad(setTileCleared(w, a, index, TRUE, NULL), a, index, SmallestFree(w))

\* a variant that starts the new timer without clearing the stored one
startLoad_keepingOldTimer(w, a, index) ==
    IF FreeIds(w) = {} THEN [w EXCEPT !.full = TRUE]
    ELSE resetAndIssue(w, a, index)

\* loadTile from "Clear any previous timeout" to the await: the stored timer
\* of the tile is cancelled first
startLoad(w, a, index) ==
    IF FreeIds(w) = {} THEN [w EXCEPT !.full = TRUE]
    ELSE resetAndIssue(clearTileTimeout(w, a, index), a, index)

loadTile_current(w, a, index) ==
    LET w0 == Called(w, "loadTile", a, index)
        err == globalConfigError(a)
    IN  IF err # NULL THEN setTileCleared(w0, a, index, FALSE, err)
        ELSE IF index \notin DOMAIN w0.tiles[a] THEN w0
        ELSE IF ~Truthy(w0.tiles[a][index].aggregateFieldApiName)
             THEN setTileCleared(w0, a, index, FALSE, tileConfigMsg(index))
        ELSE startLoad(w0, a, index)

\* the earlier copy has no check of the tile's aggregate field
loadTile_legacy(w, a, index) ==
    LET w0 == Called(w, "loadTile", a, index)
        err == globalConfigError(a)
    IN  IF err # NULL THEN setTileCleared(w0, a, index, FALSE, err)
        ELSE IF index \notin DOMAIN w0.tiles[a] THEN w0
        ELSE startLoad(w0, a, index)

loadTile(w, a, index) ==
    IF build = "legacy" THEN loadTile_legacy(w, a, index)
    ELSE loadTile_current(w, a, index)

\* this.tiles.forEach(tile => this.loadTile(tile.index)): forEach walks the
\* array the call started with
RECURSIVE loadEach(_, _, _)
loadEach(w, a, indices) ==
    IF indices = <<>> THEN w
    ELSE CHOOSE done \in { loadEach(loaded, a, Tail(indices)) :
                                loaded \in { loadTile(w, a, Head(indices)) } } : TRUE

refreshAllTiles(w, a) ==
    loadEach(w, a, [k \in DOMAIN w.tiles[a] |-> w.tiles[a][k].index])

(********************** settlement of a load *******************************)
\* What getRollup can do with a request: resolve with nothing, resolve with a
\* result (with or without errorMessage), or reject.
Outcome(kind, errorMessage, value, recordCount, isCurrency, isPercent, isDate, fieldLabel) ==
    [kind |-> kind, errorMessage |-> errorMessage, value |-> value,
     recordCount |-> recordCount, isCurrency |-> isCurrency,
     isPercent |-> isPercent, isDate |-> isDate, fieldLabel |-> fieldLabel]

ServiceOutcomes ==
    { Outcome("null", NULL, NULL, NULL, FALSE, FALSE, FALSE, NULL),
      Outcome("data", NULL, <<"4", "2">>, <<"1">>, TRUE, FALSE, FALSE, <<"A", "m", "t">>),
      Outcome("data", NULL, <<"d">>, NULL, FALSE, FALSE, TRUE, NULL),
      Outcome("data", <<"Invalid field">>, <<"9">>, <<"3">>, FALSE, TRUE, FALSE, <<"P">>),
      Outcome("reject", <<"Apex failed">>, NULL, NULL, FALSE, FALSE, FALSE, NULL) }

\* a variant whose map forgets to compare the tile index
setTileData_everyTile(w, a, index, data) ==
    [w EXCEPT !.tiles[a] =
        [k \in DOMAIN @ |->
            recomputeTileDerivedFields(a,
                [@[k] EXCEPT
                    !.isLoading = FALSE,
                    !.error = IF Truthy(data.errorMessage)
                              THEN data.errorMessage ELSE NULL,
                    !.value = IF Truthy(data.errorMessage) THEN NULL ELSE data.value,
                    !.recordCount = data.recordCount,
                    !.isCurrency = data.isCurrency,
                    !.isPercent = data.isPercent,
                    !.isDate = IF build = "legacy" THEN FALSE ELSE data.isDate,
                    !.fieldLabel = data.fieldLabel])]]

\* the state update after "await Promise.race" resolved with data
\* a variant that shows the value of a response that reports an error
setTileData_keepingValueOnError(w, a, index, data) ==
    [w EXCEPT !.tiles[a] =
        [k \in DOMAIN @ |->
            IF @[k].index = index
            THEN recomputeTileDerivedFields(a,
                    [@[k] EXCEPT
                        !.isLoading = FALSE,
                        !.error = IF Truthy(data.errorMessage)
                                  THEN data.errorMessage ELSE NULL,
                        !.value = data.value,
                        !.recordCount = data.recordCount,
                        !.isCurrency = data.isCurrency,
                        !.isPercent = data.isPercent,
                        !.isDate = IF build = "legacy" THEN FALSE ELSE data.isDate,
                        !.fieldLabel = data.fieldLabel])
            ELSE @[k]]]

\* a variant that closes the menu of the tile it writes to
setTileData_closingMenu(w, a, index, data) ==
    [w EXCEPT !.tiles[a] =
        [k \in DOMAIN @ |->
            IF @[k].index = index
            THEN recomputeTileDerivedFields(a,
                    [@[k] EXCEPT
                        !.isLoading = FALSE,
                        !.error = IF Truthy(data.errorMessage)
                                  THEN data.errorMessage ELSE NULL,
                        !.value = IF Truthy(data.errorMessage)
                                  THEN NULL ELSE data.value,
                        !.recordCount = data.recordCount,
                        !.isCurrency = data.isCurrency,
                        !.isPercent = data.isPercent,
                        !.isDate = IF build = "legacy" THEN FALSE ELSE data.isDate,
                        !.fieldLabel = data.fieldLabel,
                        !.isAggregationMenuOpen = FALSE])
            ELSE @[k]]]

setTileData(w, a, index, data) ==
    [w EXCEPT !.tiles[a] =
        [k \in DOMAIN @ |->
            IF @[k].index = index
            THEN recomputeTileDerivedFields(a,
                    [@[k] EXCEPT
                        !.isLoading = FALSE,
                        !.error = IF Truthy(data.errorMessage)
                                  THEN data.errorMessage ELSE NULL,
                        !.value = IF Truthy(data.errorMessage)
                                  THEN NULL ELSE data.value,
                        !.recordCount = data.recordCount,
                        !.isCurrency = data.isCurrency,
                        !.isPercent = data.isPercent,
                        !.isDate = IF build = "legacy" THEN FALSE ELSE data.isDate,
                        !.fieldLabel = data.fieldLabel])
            ELSE @[k]]]

\* the catch block's message: error.body.message, error.message, the string
\* thrown, or the fixed text
rejectionMsg(outcome) ==
    IF Truthy(outcome.errorMessage) THEN outcome.errorMessage ELSE UnexpectedLoadMsg

\* loadTile after the await, for the call in slot id: try or catch, then finally
continueLoad(w, id, outcome) ==
    LET a == w.loads[id].inst
        index == w.loads[id].index
        updated ==
            IF outcome.kind = "null" THEN setTileCleared(w, a, index, FALSE, NoDataMsg)
            ELSE IF outcome.kind = "data" THEN setTileData(w, a, index, outcome)
            ELSE setTileCleared(w, a, index, FALSE, rejectionMsg(outcome))
    IN  clearTileTimeout(updated, a, index)

TimeoutOutcome == Outcome("reject", TimeoutMsg, NULL, NULL, FALSE, FALSE, FALSE, NULL)

(*************************** other handlers ********************************)
\* a variant that also wipes the error of the tiles whose menu it closes
closeAllAggregationMenus_clearingErrors(w, a) ==
    [w EXCEPT !.tiles[a] =
        [k \in DOMAIN @ |->
            IF @[k].isAggregationMenuOpen
            THEN recomputeTileDerivedFields(a,
                    [@[k] EXCEPT !.isAggregationMenuOpen = FALSE, !.error = NULL])
            ELSE @[k]]]

closeAllAggregationMenus(w, a) ==
    [w EXCEPT !.tiles[a] =
        [k \in DOMAIN @ |->
            IF @[k].isAggregationMenuOpen
            THEN recomputeTileDerivedFields(a, [@[k] EXCEPT !.isAggregationMenuOpen = FALSE])
            ELSE @[k]]]

\* a variant without the record filter
handleGlobalRefresh_unfiltered(w, b, sourceRecordId) == refreshAllTiles(w, b)

\* a variant that also ignores the signal when the instance has no record
handleGlobalRefresh_strict(w, b, sourceRecordId) ==
    IF Truthy(sourceRecordId) /\ sourceRecordId # cfg[b].recordId
    THEN w
    ELSE refreshAllTiles(w, b)

handleGlobalRefresh(w, b, sourceRecordId) ==
    IF Truthy(sourceRecordId) /\ Truthy(cfg[b].recordId)
       /\ sourceRecordId # cfg[b].recordId
    THEN w
    ELSE refreshAllTiles(w, b)

\* a variant that ignores every signal
handleGlobalCloseMenus_deaf(w, b, origin) == w

\* a variant that obeys its own signal as well
handleGlobalCloseMenus_alsoOwn(w, b, origin) ==
    IF origin = 0 THEN w ELSE closeAllAggregationMenus(w, b)

handleGlobalCloseMenus(w, b, origin) ==
    IF origin = 0 \/ origin = instanceId[b] THEN w
    ELSE closeAllAggregationMenus(w, b)

\* window.dispatchEvent: the listeners run one after the other, in the order
\* they were registered
RECURSIVE dispatchRefresh(_, _, _)
dispatchRefresh(w, ls, sourceRecordId) ==
    IF ls = <<>> THEN w
    ELSE dispatchRefresh(handleGlobalRefresh(w, Head(ls), sourceRecordId),
                         Tail(ls), sourceRecordId)

RECURSIVE dispatchCloseMenus(_, _, _)
dispatchCloseMenus(w, ls, origin) ==
    IF ls = <<>> THEN w
    ELSE dispatchCloseMenus(handleGlobalCloseMenus(w, Head(ls), origin),
                            Tail(ls), origin)

\* a variant that refreshes its own grid and broadcasts as well
handleRefreshAllClick_twice(w, a) ==
    dispatchRefresh(refreshAllTiles(Called(w, "handleRefreshAllClick", a, 0), a),
                    listeners,
                    IF Truthy(cfg[a].recordId) THEN cfg[a].recordId ELSE NULL)

handleRefreshAllClick(w, a) ==
    IF build = "legacy"
    THEN refreshAllTiles(Called(w, "handleRefreshAllClick", a, 0), a)
    ELSE dispatchRefresh(Called(w, "handleRefreshAllClick", a, 0), listeners,
                         IF Truthy(cfg[a].recordId) THEN cfg[a].recordId ELSE NULL)

\* a variant that flips the flag without recomputing the tile
toggleMenu_withoutRecompute(w, a, index) ==
    [w EXCEPT !.tiles[a] =
        [k \in DOMAIN @ |->
            IF @[k].index = index
            THEN [@[k] EXCEPT !.isAggregationMenuOpen = ~@]
            ELSE IF @[k].isAggregationMenuOpen
            THEN recomputeTileDerivedFields(a,
                    [@[k] EXCEPT !.isAggregationMenuOpen = FALSE])
            ELSE @[k]]]

toggleMenu(w, a, index) ==
    [w EXCEPT !.tiles[a] =
        [k \in DOMAIN @ |->
            IF @[k].index = index
            THEN recomputeTileDerivedFields(a,
                    [@[k] EXCEPT !.isAggregationMenuOpen = ~@])
            ELSE IF @[k].isAggregationMenuOpen
            THEN recomputeTileDerivedFields(a,
                    [@[k] EXCEPT !.isAggregationMenuOpen = FALSE])
            ELSE @[k]]]

\* the close-menus event is dispatched to the window before the toggle
handleGearClick(w, a, index) ==
    IF build = "legacy" THEN toggleMenu(w, a, index)
    ELSE toggleMenu(
            dispatchCloseMenus(Called(w, "st_rollup_tile_grid_close_menus", a, index),
                               listeners, instanceId[a]),
            a, index)

handleAggregationMenuClick(w, a, index, newTypeRaw) ==
    LET newTypeUpper == ToUpperCase(IF Truthy(newTypeRaw) THEN newTypeRaw ELSE <<>>)
    IN  IF newTypeUpper = <<>>
        THEN [w EXCEPT !.tiles[a] =
                [k \in DOMAIN @ |->
                    IF @[k].index = index
                    THEN recomputeTileDerivedFields(a,
                            [@[k] EXCEPT !.isAggregationMenuOpen = FALSE])
                    ELSE @[k]]]
        ELSE loadTile(
                [w EXCEPT !.tiles[a] =
                    [k \in DOMAIN @ |->
                        IF @[k].index # index THEN @[k]
                        ELSE recomputeTileDerivedFields(a,
                                [@[k] EXCEPT
                                    !.aggregateType = normalizeAggregationType(newTypeUpper),
                                    !.isAggregationMenuOpen = FALSE])]],
                a, index)

\* a variant that never closes a menu
handleWindowClick_deaf(w, b, target) == w

\* handleWindowClick of instance b for a click whose target lies in `target`
\* (an instance, or "outside" every instance)
handleWindowClick(w, b, target) ==
    IF target = b THEN w ELSE closeAllAggregationMenus(w, b)

RECURSIVE dispatchClick(_, _, _)
dispatchClick(w, ls, target) ==
    IF ls = <<>> THEN w
    ELSE dispatchClick(handleWindowClick(w, Head(ls), target), Tail(ls), target)

errorCallback(w, a, errorMessage) ==
    LET config == globalConfigError(a)
        msg == IF build # "legacy" /\ config # NULL THEN config
               ELSE IF Truthy(errorMessage)
                    THEN RenderErrorMsg \o <<" ">> \o errorMessage
                    ELSE RenderErrorMsg
    IN  [w EXCEPT !.tiles[a] =
            [k \in DOMAIN @ |->
                recomputeTileDerivedFields(a,
                    [@[k] EXCEPT !.isLoading = FALSE, !.error = msg])]]

\* disconnectedCallback: every stored timer is cleared and the map is emptied
RECURSIVE clearAll(_, _)
clearAll(w, ids) ==
    IF ids = {} THEN w
    ELSE LET id == CHOOSE x \in ids : TRUE
         IN  clearAll(clearTimeout(w, id), ids \ {id})

disconnectTimeouts(w, a) ==
    [clearAll(w, {w.tileTimeouts[a][k] : k \in DOMAIN w.tileTimeouts[a]})
        EXCEPT !.tileTimeouts[a] = <<>>]

(************************** configurations *********************************)
R1 == <<"0", "0", "1">>
R2 == <<"0", "0", "2">>
ChildObject == <<"n", "_", "_", "J", "o", "b", "_", "_", "c">>
ChildRelationship == <<"P", "_", "_", "c">>
GrandchildObject == <<"s", "u", "b", "T", "a", "s", "k">>
GrandchildRelationship == <<"J", "_", "_", "c">>
Blank == <<" ">>

Shared(child, rel, gobj, grel) ==
    [childObjectApiName |-> child, relationshipFieldApiName |-> rel,
     grandchildObjectApiName |-> gobj, grandchildRelationshipFieldApiName |-> grel]

CompleteShared == Shared(ChildObject, ChildRelationship, NULL, NULL)

\* the shared properties an instance is configured with
SharedConfigs ==
    { CompleteShared,
      Shared(ChildObject, ChildRelationship, GrandchildObject, GrandchildRelationship),
      Shared(<<>>, ChildRelationship, NULL, NULL),
      Shared(ChildObject, NULL, NULL, NULL),
      Shared(NULL, <<>>, NULL, NULL),
      Shared(ChildObject, ChildRelationship, GrandchildObject, NULL),
      Shared(ChildObject, ChildRelationship, GrandchildObject, <<>>),
      Shared(ChildObject, ChildRelationship, GrandchildObject, Blank),
      Shared(ChildObject, ChildRelationship, NULL, GrandchildRelationship),
      Shared(ChildObject, ChildRelationship, Blank, GrandchildRelationship) }

\* tiles 1 and 2 of an instance are configured, but for the aggregate field of
\* the tiles in noField; the properties of tiles 3 to 25 are left unset
Config(recordId, rows, columns, shared, noField) ==
    [recordId |-> recordId, rows |-> rows, columns |-> columns,
     childObjectApiName |-> shared.childObjectApiName,
     relationshipFieldApiName |-> shared.relationshipFieldApiName,
     grandchildObjectApiName |-> shared.grandchildObjectApiName,
     grandchildRelationshipFieldApiName |-> shared.grandchildRelationshipFieldApiName,
     decimalPlaces |-> <<"2">>,
     tileProps |->
        [k \in 1..2 |->
            [Label |-> NULL,
             AggregateFieldApiName |->
                IF k \in noField THEN NULL ELSE <<"F", ToString(k)>>,
             InitialAggregationType |->
                IF k = 1 THEN <<" ", "a", "v", "g">> ELSE <<"c", "o", "u", "n", "t">>,
             FilterCondition |-> IF k = 1 THEN <<"x", ">", "0">> ELSE NULL]]]

\* A page of two instances: A has two tiles, B has one tile and a complete
\* configuration
Page(ra, rb, shared, noField) ==
    [a \in Inst |->
        IF a = "A" THEN Config(ra, <<"1">>, <<"2">>, shared, noField)
        ELSE Config(rb, <<"0">>, <<"1">>, CompleteShared, {})]

\* The pages explored, as <<record of A, record of B, shared configuration of
\* A, tiles of A without aggregate field>>: both tiles of A configured next to
\* an instance on another record; B or A on no record; and every shared
\* configuration of A next to an instance on the same record.
Scenes ==
    { <<R1, R2, CompleteShared, {}>>,
      <<R1, NULL, CompleteShared, {2}>>,
      <<NULL, R1, CompleteShared, {2}>> }
    \cup { <<R1, R1, shared, {2}>> : shared \in SharedConfigs }

PageConfigs == { Page(s[1], s[2], s[3], s[4]) : s \in Scenes }

\* the pages explored with the earlier copy of the component
LegacyScenes ==
    { <<R1, R1, CompleteShared, {2}>>,
      <<R1, R2, Shared(<<>>, ChildRelationship, NULL, NULL), {2}>> }

LegacyPageConfigs == { Page(s[1], s[2], s[3], s[4]) : s \in LegacyScenes }

\* the Relationship Configuration screen after construction; saving counts
\* the saveConfig calls that have not settled
\* and calls holds the operations that wait for an answer of the controller
ScreenInit ==
    [parentObjectApiName |-> <<"P">>, connected |-> FALSE,
     isLoading |-> FALSE, loadError |-> NULL,
     childObjectOptions |-> <<>>, childObjectValue |-> NULL,
     childRelationshipFieldOptions |-> <<>>, childRelationshipFieldValue |-> NULL,
     grandchildObjectOptions |-> <<>>, grandchildObjectValue |-> NULL,
     grandchildRelationshipFieldOptions |-> <<>>,
     grandchildRelationshipFieldValue |-> NULL,
     saving |-> 0, calls |-> <<>>]

TypeInit ==
    /\ listeners = <<>>
    /\ instanceId = [a \in Inst |-> 0]
    /\ NEXT_INSTANCE_ID = 1
    /\ initialized = [a \in Inst |-> FALSE]
    /\ tiles = [a \in Inst |-> <<>>]
    /\ tileTimeouts = [a \in Inst |-> <<>>]
    /\ loads = [id \in LoadIds |-> NoLoad]
    /\ ops = <<>>
    /\ steps = 0
    /\ screen = ScreenInit

Init ==
    /\ build = "current"
    /\ cfg \in PageConfigs
    /\ TypeInit

InitLegacy ==
    /\ build = "legacy"
    /\ cfg \in LegacyPageConfigs
    /\ TypeInit

(****************************** actions ************************************)
\* the first render follows the connect in the same task: nothing else runs
\* between connectedCallback and the renderedCallback that starts the loads
RenderDue(a) == connected(a) /\ ~initialized[a] /\ Truthy(cfg[a].recordId)

Idle == \A a \in Inst : ~RenderDue(a)

Commit(w) ==
    /\ ~w.full
    /\ steps < MaxSteps
    /\ steps' = steps + 1
    /\ tiles' = w.tiles
    /\ tileTimeouts' = w.tileTimeouts
    /\ loads' = w.loads
    /\ ops' = w.ops

Connect(a) ==
    /\ Idle
    /\ ~connected(a)
    /\ IF build # "legacy" /\ instanceId[a] = 0
       THEN /\ instanceId' = [instanceId EXCEPT ![a] = NEXT_INSTANCE_ID]
            /\ NEXT_INSTANCE_ID' = NEXT_INSTANCE_ID + 1
       ELSE UNCHANGED <<instanceId, NEXT_INSTANCE_ID>>
    /\ tiles' = [tiles EXCEPT ![a] = initializeTilesFromConfig(a)]
    /\ listeners' = Append(listeners, a)
    /\ ops' = <<>>
    /\ steps < MaxSteps
    /\ steps' = steps + 1
    /\ UNCHANGED <<screen, build, cfg, initialized, tileTimeouts, loads>>

Rendered(a) ==
    /\ RenderDue(a)
    /\ initialized' = [initialized EXCEPT ![a] = TRUE]
    /\ Commit(IF globalConfigError(a) = NULL THEN refreshAllTiles(World, a) ELSE World)
    /\ UNCHANGED <<screen, build, cfg, listeners, instanceId, NEXT_INSTANCE_ID>>

Disconnect(a) ==
    /\ Idle
    /\ connected(a)
    /\ listeners' = SelectSeq(listeners, LAMBDA b : b # a)
    /\ LET w == disconnectTimeouts(World, a)
       IN  Commit([w EXCEPT !.loads =
                [id \in LoadIds |->
                    IF @[id].inst = a THEN [@[id] EXCEPT !.current = FALSE] ELSE @[id]]])
    /\ UNCHANGED <<screen, build, cfg, instanceId, NEXT_INSTANCE_ID, initialized>>

RenderError(a, errorMessage) ==
    /\ Idle
    /\ connected(a)
    /\ Commit(errorCallback(World, a, errorMessage))
    /\ UNCHANGED <<screen, build, cfg, listeners, instanceId, NEXT_INSTANCE_ID, initialized>>

RefreshClick(a) ==
    /\ Idle
    /\ connected(a)
    /\ Commit(handleRefreshAllClick(World, a))
    /\ UNCHANGED <<screen, build, cfg, listeners, instanceId, NEXT_INSTANCE_ID, initialized>>

GearClick(a, index) ==
    /\ index \in DOMAIN tiles[a]
    /\ Idle
    /\ connected(a)
    /\ Commit(handleGearClick(World, a, index))
    /\ UNCHANGED <<screen, build, cfg, listeners, instanceId, NEXT_INSTANCE_ID, initialized>>

\* the values a menu item can carry
MenuValues == {<<>>, <<"m", "e", "d", "i", "a", "n">>}

MenuClick(a, index, newTypeRaw) ==
    /\ index \in DOMAIN tiles[a]
    /\ Idle
    /\ connected(a)
    /\ Commit(handleAggregationMenuClick(World, a, index, newTypeRaw))
    /\ UNCHANGED <<screen, build, cfg, listeners, instanceId, NEXT_INSTANCE_ID, initialized>>

\* a click that reaches the window: on the root of a connected instance
\* (its handleRootClick runs first), or outside every instance
WindowClick(target) ==
    /\ Idle
    /\ target \in Inst => connected(target)
    /\ Commit(dispatchClick(
            IF target \in Inst THEN closeAllAggregationMenus(World, target) ELSE World,
            listeners, target))
    /\ UNCHANGED <<screen, build, cfg, listeners, instanceId, NEXT_INSTANCE_ID, initialized>>

\* a variant that drops the response of a call that is no longer the latest
\* one of its tile
ApexSettle_latestOnly(id, outcome) ==
    /\ Idle
    /\ loads[id].phase # "free"
    /\ LET w == IF loads[id].phase = "awaiting" /\ loads[id].current
                THEN continueLoad(World, id, outcome) ELSE World
       IN  Commit([w EXCEPT !.loads[id] = NoLoad])
    /\ UNCHANGED <<screen, build, cfg, listeners, instanceId, NEXT_INSTANCE_ID, initialized>>

\* a variant in which a response that lost the race still updates the tile
ApexSettle_lateApplied(id, outcome) ==
    /\ Idle
    /\ loads[id].phase # "free"
    /\ Commit([continueLoad(World, id, outcome) EXCEPT !.loads[id] = NoLoad])
    /\ UNCHANGED <<screen, build, cfg, listeners, instanceId, NEXT_INSTANCE_ID, initialized>>

\* getRollup settles the call in slot id
ApexSettle(id, outcome) ==
    /\ Idle
    /\ loads[id].phase # "free"
    /\ LET w == IF loads[id].phase = "awaiting"
                THEN continueLoad(World, id, outcome) ELSE World
       IN  Commit([w EXCEPT !.loads[id] = NoLoad])
    /\ UNCHANGED <<screen, build, cfg, listeners, instanceId, NEXT_INSTANCE_ID, initialized>>

\* the timer of the call in slot id fires: the race rejects with timeoutError
TimerFire(id) ==
    /\ Idle
    /\ loads[id].timer = "pending"
    /\ loads[id].remaining = 0
    /\ LET fired == [World EXCEPT !.loads[id].timer = "fired",
                                  !.loads[id].phase = "raced"]
       IN  Commit(IF loads[id].phase = "awaiting"
                  THEN continueLoad(fired, id, TimeoutOutcome) ELSE fired)
    /\ UNCHANGED <<screen, build, cfg, listeners, instanceId, NEXT_INSTANCE_ID, initialized>>

\* time passes, but never beyond the moment a pending timer is due
Tick ==
    /\ Idle
    /\ \E id \in LoadIds : loads[id].remaining > 0
    /\ \A id \in LoadIds : loads[id].timer = "pending" => loads[id].remaining > 0
    /\ loads' = [id \in LoadIds |->
            [loads[id] EXCEPT !.remaining = IF @ > TickMs THEN @ - TickMs ELSE 0]]
    /\ ops' = <<>>
    /\ steps < MaxSteps
    /\ steps' = steps + 1
    /\ UNCHANGED <<screen, build, cfg, listeners, instanceId, NEXT_INSTANCE_ID, initialized,
                   tiles, tileTimeouts>>

Next ==
    \/ \E a \in Inst : Connect(a)
    \/ \E a \in Inst : Rendered(a)
    \/ \E a \in Inst : Disconnect(a)
    \/ \E a \in Inst, e \in {<<"boom">>} : RenderError(a, e)
    \/ \E a \in Inst : RefreshClick(a)
    \/ \E a \in Inst, index \in 1..MAX_TILES : GearClick(a, index)
    \/ \E a \in Inst, index \in 1..MAX_TILES, v \in MenuValues : MenuClick(a, index, v)
    \/ \E target \in Inst \cup {"outside"} : WindowClick(target)
    \/ \E id \in LoadIds, outcome \in ServiceOutcomes : ApexSettle(id, outcome)
    \/ \E id \in LoadIds : TimerFire(id)
    \/ Tick

Spec == Init /\ [][Next]_vars

(******************** the aggregation types as inputs **********************)
\* the raw values of a tile's Initial Aggregation Type property: absent,
\* empty, blank, the kinds in several spellings, and values that are no kind
RawAggregationTypes ==
    { NULL, <<>>, Blank,
      <<"s", "u", "m">>,
      <<" ", "S", "U", "M">>,
      <<" ", "a", "v", "g">>,
      <<"A", "V", "G">>,
      <<"A", "v", "e", "r", "a", "g", "e">>,
      <<"m", "a", "x">>,
      <<"M", "I", "N">>,
      <<"c", "o", "u", "n", "t">>,
      <<"C", "o", "u", "n", "t", "_", "D", "i", "s", "t", "i", "n", "c", "t">>,
      <<"c", "o", "n", "c", "a", "t", "e", "n", "a", "t", "e">>,
      <<"C", "O", "N", "C", "A", "T", "E", "N", "A", "T", "E", "_", "D", "I", "S", "T", "I", "N", "C", "T">>,
      <<"f", "i", "r", "s", "t">>,
      <<"L", "a", "s", "t">>,
      <<"m", "e", "d", "i", "a", "n">>,
      <<"a", " ", "v", "g">> }

\* the values a clicked menu item can carry beyond those of MenuValues
MenuInputs ==
    MenuValues \cup { Blank, <<"c", "o", "u", "n", "t">>, <<" ", "A", "v", "g">> }

\* a page whose instance A has the raw type on its first tile
TypesPage(raw) ==
    [a \in Inst |->
        IF a = "A"
        THEN [Config(R1, <<"1">>, <<"2">>, CompleteShared, {})
                EXCEPT !.tileProps[1].InitialAggregationType = raw]
        ELSE Config(R2, <<"0">>, <<"1">>, CompleteShared, {})]

InitTypes ==
    /\ build = "current"
    /\ cfg \in { TypesPage(raw) : raw \in RawAggregationTypes }
    /\ TypeInit

\* instance A is connected, rendered and clicked
NextTypes ==
    \/ Connect("A")
    \/ Rendered("A")
    \/ \E index \in 1..2 : GearClick("A", index)
    \/ \E index \in 1..2, v \in MenuInputs : MenuClick("A", index, v)

SpecTypes == InitTypes /\ [][NextTypes]_vars

(*********************** the grid dimensions as inputs *********************)
\* the raw values of the rows and columns properties: absent, empty, text,
\* zero, negative, in range, above range, padded, and with a numeric prefix
DimensionInputs ==
    { NULL, <<>>, <<"a", "b", "c">>, <<"0">>, <<"-", "3">>, <<"1">>, <<"3">>,
      <<"5">>, <<"6">>, <<"1", "0", "0">>, <<" ", "4", " ">>, <<"2", ".", "7">>,
      <<"3", "x">> }

\* a page whose instance A has the raw rows and columns
DimensionsPage(rows, columns) ==
    [a \in Inst |->
        IF a = "A" THEN Config(R1, rows, columns, CompleteShared, {})
        ELSE Config(R2, <<"0">>, <<"1">>, CompleteShared, {})]

InitDimensions ==
    /\ build = "current"
    /\ cfg \in { DimensionsPage(r, c) : r, c \in DimensionInputs }
    /\ TypeInit

\* instance A is connected, rendered, refreshed and disconnected
NextDimensions ==
    \/ Connect("A")
    \/ Rendered("A")
    \/ RefreshClick("A")
    \/ Disconnect("A")

SpecDimensions == InitDimensions /\ [][NextDimensions]_vars

(********************* the field category as a function ********************)
\* the categories a tile can have stored, "" standing for none
StoredCategories == {"", "unknown", "numeric", "text", "date"}

\* the first tile of instance A with a stored category and the three flags
CategoryTile(category, isCurrency, isPercent, isDate) ==
    [buildInitialTileConfig("A", 1) EXCEPT
        !.fieldCategory = category, !.isCurrency = isCurrency,
        !.isPercent = isPercent, !.isDate = isDate]

\* the earlier copy stores no isDate flag and no date category on a tile
InitCategories ==
    /\ build \in {"current", "legacy"}
    /\ cfg = Page(R1, R2, CompleteShared, {})
    /\ listeners = <<"A">>
    /\ instanceId = [a \in Inst |-> IF a = "A" /\ build = "current" THEN 1 ELSE 0]
    /\ NEXT_INSTANCE_ID = IF build = "current" THEN 2 ELSE 1
    /\ initialized = [a \in Inst |-> a = "A"]
    /\ tiles \in
          { [a \in Inst |->
                IF a = "A" THEN <<CategoryTile(c, isCurrency, isPercent, isDate)>>
                ELSE <<>>] :
            c \in IF build = "legacy" THEN StoredCategories \ {"date"}
                  ELSE StoredCategories,
            isCurrency \in BOOLEAN, isPercent \in BOOLEAN,
            isDate \in IF build = "legacy" THEN {FALSE} ELSE BOOLEAN }
    /\ tileTimeouts = [a \in Inst |-> <<>>]
    /\ loads = [id \in LoadIds |-> NoLoad]
    /\ ops = <<>>
    /\ steps = 0
    /\ screen = ScreenInit

\* recomputeTileDerivedFields runs on the tiles of instance a, as it does at
\* the end of every state change
Recompute(a) ==
    /\ steps < MaxSteps
    /\ steps' = steps + 1
    /\ tiles' = [tiles EXCEPT ![a] =
            [k \in DOMAIN @ |-> recomputeTileDerivedFields(a, @[k])]]
    /\ ops' = <<>>
    /\ UNCHANGED <<screen, build, cfg, listeners, instanceId, NEXT_INSTANCE_ID,
                   initialized, tileTimeouts, loads>>

NextCategories == Recompute("A")

SpecCategories == InitCategories /\ [][NextCategories]_vars

(************************ time that is not rationed ************************)
\* The steps of users and of the service are counted and capped; the passing
\* of time and the firing of timers are not, so that a timer that is pending
\* can always fire.
CommitUncounted(w) ==
    /\ ~w.full
    /\ tiles' = w.tiles
    /\ tileTimeouts' = w.tileTimeouts
    /\ loads' = w.loads
    /\ ops' = w.ops
    /\ UNCHANGED steps

\* the callback of setTimeout(..., LOAD_TIMEOUT_MS) runs
TimerElapses(id) ==
    /\ Idle
    /\ loads[id].timer = "pending"
    /\ loads[id].remaining = 0
    /\ LET fired == [World EXCEPT !.loads[id].timer = "fired",
                                  !.loads[id].phase = "raced"]
       IN  CommitUncounted(IF loads[id].phase = "awaiting"
                           THEN continueLoad(fired, id, TimeoutOutcome) ELSE fired)
    /\ UNCHANGED <<screen, build, cfg, listeners, instanceId, NEXT_INSTANCE_ID, initialized>>

TimePasses ==
    /\ Idle
    /\ \E id \in LoadIds : loads[id].timer = "pending" /\ loads[id].remaining > 0
    /\ \A id \in LoadIds : loads[id].timer = "pending" => loads[id].remaining > 0
    /\ loads' = [id \in LoadIds |->
            [loads[id] EXCEPT !.remaining = IF @ > TickMs THEN @ - TickMs ELSE 0]]
    /\ ops' = <<>>
    /\ UNCHANGED <<screen, build, cfg, listeners, instanceId, NEXT_INSTANCE_ID, initialized,
                   tiles, tileTimeouts, steps>>

\* a grid of one configured tile, whose user refreshes and leaves the page,
\* and a service that answers, with a result or an error, or stays silent
InitLive ==
    /\ build = "current"
    /\ cfg = [a \in Inst |-> Config(R1, <<"1">>, <<"1">>, CompleteShared, {})]
    /\ TypeInit

LiveOutcomes == { o \in ServiceOutcomes : o.kind = "data" /\ o.recordCount # NULL }

NextLive ==
    \/ Connect("A")
    \/ Rendered("A")
    \/ RefreshClick("A")
    \/ Disconnect("A")
    \/ \E id \in LoadIds, outcome \in LiveOutcomes : ApexSettle(id, outcome)
    \/ TimePasses
    \/ \E id \in LoadIds : TimerElapses(id)

\* the clock: time passes up to the next expiry, and a timer whose time has
\* come runs
ClockRuns == TimePasses \/ \E id \in LoadIds : TimerElapses(id)

\* the clock does not stop, so that timers that are pending fire in the end;
\* nothing is assumed of the service
SpecLive == InitLive /\ [][NextLive]_vars /\ WF_vars(ClockRuns)

(**************** the Relationship Configuration screen ********************)
\* what saveConfig can do: resolve, reject with a message, reject without one
SaveOutcomes ==
    { [ok |-> TRUE, message |-> NULL],
      [ok |-> FALSE, message |-> <<"Insufficient access">>],
      [ok |-> FALSE, message |-> NULL] }

SaveErrorFallback == <<"Error saving rollup relationship configuration.">>

\* handleError: the message of the error, or the fallback, becomes loadError
\* and is shown in an error toast
handleError(scr, errorMessage, fallbackMessage) ==
    [scr EXCEPT !.loadError = IF Truthy(errorMessage) THEN errorMessage
                              ELSE fallbackMessage]

\* the grids the grid component has registered for the screen's configsave
\* notification: connectedCallback adds window listeners for clicks, for the
\* refresh signal and for the close-menus signal, and the component has no
\* handler for configsave; the event is dispatched on the screen's own element
configsaveListeners == <<>>

\* everything of the grids stays as it is
GridUnchanged ==
    UNCHANGED <<build, cfg, listeners, instanceId, NEXT_INSTANCE_ID, initialized,
                tiles, tileTimeouts, loads>>

\* a step of the screen
ScreenStepTaken == steps < MaxScreenSteps /\ steps' = steps + 1

\* handleGrandchildRelationshipFieldChange
GrandchildRelationshipFieldChange(value) ==
    /\ Idle
    /\ ScreenStepTaken
    /\ screen' = [screen EXCEPT !.grandchildRelationshipFieldValue =
                        IF Truthy(value) THEN value ELSE NULL]
    /\ ops' = <<>>
    /\ GridUnchanged

\* handleSaveClick up to its await: the spinner is shown and saveConfig is
\* called
SaveClick ==
    /\ Idle
    /\ screen.saving < MaxSaves
    /\ ScreenStepTaken
    /\ screen' = [screen EXCEPT !.isLoading = TRUE, !.saving = @ + 1]
    /\ ops' = << <<"saveConfig", "", 0>> >>
    /\ GridUnchanged

\* handleSaveClick from its await on: after a save that worked the success
\* toast and the configsave notification are dispatched, after one that
\* failed handleError runs; the spinner is hidden in both cases.  The
\* notification reaches the handlers registered for it.
SaveSettle(outcome) ==
    /\ Idle
    /\ screen.saving > 0
    /\ ScreenStepTaken
    /\ screen' = [(IF outcome.ok THEN screen
                   ELSE handleError(screen, outcome.message, SaveErrorFallback))
                    EXCEPT !.isLoading = FALSE, !.saving = @ - 1]
    /\ IF outcome.ok
       THEN /\ configsaveListeners = <<>>
            /\ ops' = << <<"ShowToastEvent", "", 0>>, <<"configsave", "", 0>> >>
       ELSE ops' = << <<"ShowToastEvent", "", 0>> >>
    /\ GridUnchanged

(************ the screen's options and the controller's answers ************)
\* the objects and fields the controller knows
ChildOne == <<"C", "1">>
ChildTwo == <<"C", "2">>
FieldOne == <<"F", "1">>
FieldTwo == <<"F", "2">>
GrandchildOne == <<"G", "1">>
GrandchildTwo == <<"G", "2">>
LookupOne == <<"H", "1">>
LookupTwo == <<"H", "2">>
\* an object that was deleted after a configuration naming it was saved
Gone == <<"X">>

\* opt => ({ label: opt.label, value: opt.value }), for a list of api names
\* whose labels are the names
OptionsOf(names) == [k \in DOMAIN names |-> [label |-> names[k], value |-> names[k]]]

OptionValues(options) == { options[k].value : k \in DOMAIN options }

\* what the controller returns for a call with the given arguments
getChildObjects(parentObjectApiName) == OptionsOf(<<ChildOne, ChildTwo>>)

getChildRelationshipFields(parentObjectApiName, childObjectApiName) ==
    IF childObjectApiName = ChildOne THEN OptionsOf(<<FieldOne>>)
    ELSE IF childObjectApiName = ChildTwo THEN OptionsOf(<<FieldTwo>>)
    ELSE <<>>

getGrandchildObjects(parentObjectApiName, childObjectApiName) ==
    IF childObjectApiName = ChildOne THEN OptionsOf(<<GrandchildOne, GrandchildTwo>>)
    ELSE IF childObjectApiName = ChildTwo THEN OptionsOf(<<GrandchildTwo>>)
    ELSE <<>>

getGrandchildRelationshipFields(parentObjectApiName, childObjectApiName, grandchildObjectApiName) ==
    IF grandchildObjectApiName = GrandchildOne THEN OptionsOf(<<LookupOne>>)
    ELSE IF grandchildObjectApiName = GrandchildTwo THEN OptionsOf(<<LookupTwo>>)
    ELSE <<>>

\* a persisted configuration
Persisted(child, rel, gobj, grel) ==
    [childObjectApiName |-> child, relationshipFieldApiName |-> rel,
     grandchildObjectApiName |-> gobj, grandchildRelationshipFieldApiName |-> grel]

\* what getConfig can return: nothing (the empty sequence), a configuration
\* that is still valid, one whose child object is gone, one whose grandchild
\* object is gone
getConfigResults ==
    { <<>>,
      <<Persisted(ChildOne, FieldOne, GrandchildOne, LookupOne)>>,
      <<Persisted(Gone, FieldOne, GrandchildOne, LookupOne)>>,
      <<Persisted(ChildOne, FieldOne, Gone, LookupOne)>> }

\* the answer to the call an operation waits for: the list (or configuration)
\* returned, or a rejection
Resolved(results) == [ok |-> TRUE, results |-> results, message |-> NULL]

Rejected == [ok |-> FALSE, results |-> <<>>, message |-> <<"Apex failed">>]

AnswersTo(call) ==
    {Rejected} \cup
    CASE call.awaiting = "getConfig" -> { Resolved(existing) : existing \in getConfigResults }
      [] call.awaiting = "getChildObjects" ->
            { Resolved(getChildObjects(call.parentObjectApiName)) }
      [] call.awaiting = "getChildRelationshipFields" ->
            { Resolved(getChildRelationshipFields(call.parentObjectApiName,
                                                  call.childObjectApiName)) }
      [] call.awaiting = "getGrandchildObjects" ->
            { Resolved(getGrandchildObjects(call.parentObjectApiName,
                                            call.childObjectApiName)) }
      [] call.awaiting = "getGrandchildRelationshipFields" ->
            { Resolved(getGrandchildRelationshipFields(call.parentObjectApiName,
                            call.childObjectApiName, call.grandchildObjectApiName)) }

(******************* the screen's asynchronous operations *******************)
\* x || null
OrNull(x) == IF Truthy(x) THEN x ELSE NULL

\* "Ensure the stored value is still valid"
keepIfOffered(value, options) ==
    IF Truthy(value) /\ value \notin OptionValues(options) THEN NULL ELSE value

\* the operation op of the screen calls the controller and waits: the
\* arguments are the selections at the time of the call
await(scr, op, method) ==
    [scr EXCEPT !.calls = Append(@,
        [op |-> op, awaiting |-> method,
         parentObjectApiName |-> scr.parentObjectApiName,
         childObjectApiName |-> scr.childObjectValue,
         grandchildObjectApiName |-> scr.grandchildObjectValue])]

\* the finally block of initialize and of withSpinner
hideSpinner(scr) == [scr EXCEPT !.isLoading = FALSE]

\* loadGrandchildRelationshipFields up to its await; both callers end after it
loadGrandchildRelationshipFields(scr, op) ==
    LET reset == [scr EXCEPT !.grandchildRelationshipFieldOptions = <<>>,
                             !.grandchildRelationshipFieldValue = OrNull(@)]
    IN  IF ~Truthy(reset.childObjectValue) \/ ~Truthy(reset.grandchildObjectValue)
        THEN hideSpinner(reset)
        ELSE await(reset, op, "getGrandchildRelationshipFields")

\* what follows loadGrandchildObjects: initialize goes on to the grandchild's
\* fields if a grandchild is selected, a reload after a change of the child ends
afterGrandchildObjects(scr, op) ==
    IF op = "initialize" /\ Truthy(scr.grandchildObjectValue)
    THEN loadGrandchildRelationshipFields(scr, op)
    ELSE hideSpinner(scr)

\* loadGrandchildObjects up to its await
loadGrandchildObjects(scr, op) ==
    LET reset == [scr EXCEPT !.grandchildObjectOptions = <<>>]
    IN  IF ~Truthy(reset.childObjectValue)
        THEN afterGrandchildObjects([reset EXCEPT !.grandchildObjectValue = NULL], op)
        ELSE await(reset, op, "getGrandchildObjects")

\* loadChildRelationshipFields up to its await; loadGrandchildObjects follows
\* it in both callers
loadChildRelationshipFields(scr, op) ==
    LET reset == [scr EXCEPT !.childRelationshipFieldOptions = <<>>,
                             !.childRelationshipFieldValue = OrNull(@)]
    IN  IF ~Truthy(reset.childObjectValue) THEN loadGrandchildObjects(reset, op)
        ELSE await(reset, op, "getChildRelationshipFields")

\* loadChildObjects up to its await
loadChildObjects(scr, op) ==
    await([scr EXCEPT !.childObjectOptions = <<>>], op, "getChildObjects")

\* initialize after getConfig answered
adoptExisting(scr, existing) ==
    IF existing = <<>> THEN scr
    ELSE [scr EXCEPT
            !.childObjectValue = OrNull(existing[1].childObjectApiName),
            !.childRelationshipFieldValue = OrNull(existing[1].relationshipFieldApiName),
            !.grandchildObjectValue = OrNull(existing[1].grandchildObjectApiName),
            !.grandchildRelationshipFieldValue =
                OrNull(existing[1].grandchildRelationshipFieldApiName)]

\* initialize after loadChildObjects returned
afterChildObjects(scr, op) ==
    IF Truthy(scr.childObjectValue) THEN loadChildRelationshipFields(scr, op)
    ELSE hideSpinner(scr)

LoadErrorFallback == <<"Error loading rollup relationship configuration.">>

SpinnerErrorFallback == <<"Error refreshing dependent options.">>

\* the operation of call goes on after the answer, up to its next await or to
\* its end; scr no longer holds the call
resume(scr, call, answer) ==
    IF ~answer.ok
    THEN hideSpinner(handleError(scr, answer.message,
            IF call.op = "initialize" THEN LoadErrorFallback ELSE SpinnerErrorFallback))
    ELSE CASE call.awaiting = "getConfig" ->
                loadChildObjects(adoptExisting(scr, answer.results), call.op)
           [] call.awaiting = "getChildObjects" ->
                afterChildObjects(
                    [scr EXCEPT !.childObjectOptions = answer.results,
                                !.childObjectValue = keepIfOffered(@, answer.results)],
                    call.op)
           [] call.awaiting = "getChildRelationshipFields" ->
                loadGrandchildObjects(
                    [scr EXCEPT !.childRelationshipFieldOptions = answer.results,
                                !.childRelationshipFieldValue =
                                    keepIfOffered(@, answer.results)],
                    call.op)
           [] call.awaiting = "getGrandchildObjects" ->
                afterGrandchildObjects(
                    [scr EXCEPT !.grandchildObjectOptions = answer.results,
                                !.grandchildObjectValue = keepIfOffered(@, answer.results)],
                    call.op)
           [] call.awaiting = "getGrandchildRelationshipFields" ->
                hideSpinner(
                    [scr EXCEPT !.grandchildRelationshipFieldOptions = answer.results,
                                !.grandchildRelationshipFieldValue =
                                    keepIfOffered(@, answer.results)])

\* the sequence without its k-th element
Without(seq, k) == [j \in 1..(Len(seq) - 1) |-> IF j < k THEN seq[j] ELSE seq[j + 1]]

ParentRequiredMsg ==
    <<"parentObjectApiName @api property is required for rollupRelationshipConfig.">>

\* connectedCallback of the screen, with initialize up to its first await
ScreenConnect ==
    /\ ~screen.connected
    /\ ScreenStepTaken
    /\ screen' =
         IF ~Truthy(screen.parentObjectApiName)
         THEN [screen EXCEPT !.connected = TRUE, !.loadError = ParentRequiredMsg]
         ELSE await([screen EXCEPT !.connected = TRUE, !.isLoading = TRUE,
                                   !.loadError = NULL],
                    "initialize", "getConfig")
    /\ ops' = <<>>
    /\ GridUnchanged

\* the controller answers the k-th waiting call
ControllerSettle(k, answer) ==
    /\ k \in DOMAIN screen.calls
    /\ answer \in AnswersTo(screen.calls[k])
    /\ Len(screen.calls) <= MaxCalls
    /\ ScreenStepTaken
    /\ screen' = resume([screen EXCEPT !.calls = Without(@, k)], screen.calls[k], answer)
    /\ ops' = IF answer.ok THEN <<>> ELSE << <<"ShowToastEvent", "", 0>> >>
    /\ GridUnchanged

\* handleChildObjectChange, with withSpinner up to its first await; the user
\* picks one of the options shown
ChildObjectChange(value) ==
    /\ screen.connected
    /\ value \in OptionValues(screen.childObjectOptions)
    /\ Len(screen.calls) < MaxCalls
    /\ ScreenStepTaken
    /\ screen' =
         IF OrNull(value) = screen.childObjectValue THEN screen
         ELSE loadChildRelationshipFields(
                [screen EXCEPT !.childObjectValue = OrNull(value),
                               !.childRelationshipFieldValue = NULL,
                               !.childRelationshipFieldOptions = <<>>,
                               !.grandchildObjectValue = NULL,
                               !.grandchildObjectOptions = <<>>,
                               !.grandchildRelationshipFieldValue = NULL,
                               !.grandchildRelationshipFieldOptions = <<>>,
                               !.isLoading = TRUE],
                "handleChildObjectChange")
    /\ ops' = <<>>
    /\ GridUnchanged

\* handleChildRelationshipFieldChange; the list is disabled without a child
ChildRelationshipFieldChange(value) ==
    /\ screen.connected
    /\ Truthy(screen.childObjectValue)
    /\ value \in OptionValues(screen.childRelationshipFieldOptions)
    /\ ScreenStepTaken
    /\ screen' = [screen EXCEPT !.childRelationshipFieldValue = OrNull(value)]
    /\ ops' = <<>>
    /\ GridUnchanged

\* handleGrandchildObjectChange, with withSpinner up to its await; the list
\* is disabled without a child
GrandchildObjectChange(value) ==
    /\ screen.connected
    /\ Truthy(screen.childObjectValue)
    /\ value \in OptionValues(screen.grandchildObjectOptions)
    /\ Len(screen.calls) < MaxCalls
    /\ ScreenStepTaken
    /\ screen' =
         IF OrNull(value) = screen.grandchildObjectValue THEN screen
         ELSE loadGrandchildRelationshipFields(
                [screen EXCEPT !.grandchildObjectValue = OrNull(value),
                               !.grandchildRelationshipFieldValue = NULL,
                               !.grandchildRelationshipFieldOptions = <<>>,
                               !.isLoading = TRUE],
                "handleGrandchildObjectChange")
    /\ ops' = <<>>
    /\ GridUnchanged

\* a page with two grids on one record next to the configuration screen
InitScreen ==
    /\ build = "current"
    /\ cfg \in { Page(R1, R1, CompleteShared, {}), Page(R1, R1, CompleteShared, {2}) }
    /\ TypeInit

NextScreen ==
    \/ \E a \in Inst : Connect(a)
    \/ \E a \in Inst : Rendered(a)
    \/ \E id \in LoadIds, outcome \in ServiceOutcomes : ApexSettle(id, outcome)
    \/ \E value \in {NULL, GrandchildRelationship} : GrandchildRelationshipFieldChange(value)
    \/ SaveClick
    \/ \E outcome \in SaveOutcomes : SaveSettle(outcome)

SpecScreen == InitScreen /\ [][NextScreen]_vars

\* the configuration screen on its own, with or without its parent object;
\* the grandchild's relationship field is disabled without a grandchild
InitConfig ==
    /\ build = "current"
    /\ cfg = Page(R1, R1, CompleteShared, {})
    /\ listeners = <<>>
    /\ instanceId = [a \in Inst |-> 0]
    /\ NEXT_INSTANCE_ID = 1
    /\ initialized = [a \in Inst |-> FALSE]
    /\ tiles = [a \in Inst |-> <<>>]
    /\ tileTimeouts = [a \in Inst |-> <<>>]
    /\ loads = [id \in LoadIds |-> NoLoad]
    /\ ops = <<>>
    /\ steps = 0
    /\ screen \in { [ScreenInit EXCEPT !.parentObjectApiName = p] : p \in {<<"P">>, NULL} }

NextConfig ==
    \/ ScreenConnect
    \/ \E k \in 1..MaxCalls, answer \in {Rejected} \cup UNION { AnswersTo(c) : c \in Range(screen.calls) } :
            ControllerSettle(k, answer)
    \/ \E value \in {ChildOne, ChildTwo} : ChildObjectChange(value)
    \/ \E value \in {FieldOne, FieldTwo} : ChildRelationshipFieldChange(value)
    \/ \E value \in {GrandchildOne, GrandchildTwo} : GrandchildObjectChange(value)
    \/ \E value \in {LookupOne, LookupTwo} :
            Truthy(screen.grandchildObjectValue)
            /\ value \in OptionValues(screen.grandchildRelationshipFieldOptions)
            /\ GrandchildRelationshipFieldChange(value)
    \/ screen.connected /\ SaveClick
    \/ \E outcome \in SaveOutcomes : SaveSettle(outcome)

SpecConfig == InitConfig /\ [][NextConfig]_vars

SpecLegacy == InitLegacy /\ [][Next]_vars


(******************************* properties ********************************)
\* the calls of one kind that instance b made, among the calls o of a step
CallsOf(o, what, b) == SelectSeq(o, LAMBDA c : c[1] = what /\ c[2] = b)

CallCount(o, what, b, i) == Len(SelectSeq(o, LAMBDA c : c = <<what, b, i>>))

\* b made no call at all
Silent(o, b) == SelectSeq(o, LAMBDA c : c[2] = b) = <<>>

\* b called loadTile once for each of its tiles, and for nothing else
LoadedEachTileOnce(o, b) ==
    /\ \A i \in DOMAIN tiles[b] : CallCount(o, "loadTile", b, i) = 1
    /\ Len(CallsOf(o, "loadTile", b)) = Len(tiles[b])

StoredTimer(tt, b, j) == IF j \in DOMAIN tt[b] THEN tt[b][j] ELSE 0

IsGlobalConfigMessage(e) ==
    e # NULL /\ Head(e) = "Rollup Tile Grid is not fully configured yet. Missing: "

IsTileConfigMessage(e, i) ==
    /\ e # NULL
    /\ Len(e) >= 4
    /\ SubSeq(e, 1, 2) = <<"Tile ", ToString(i)>>
    /\ e[4] = ToString(i)

MetadataCleared(tile) ==
    /\ tile.value = NULL
    /\ tile.recordCount = NULL
    /\ ~tile.isCurrency /\ ~tile.isPercent /\ ~tile.isDate
    /\ tile.fieldLabel = NULL

NonEmptyAfterTrim(x) == x # NULL /\ Trim(x) # <<>>

\* C1: a load that passed its preconditions, is the latest one of its tile on
\* a connected instance, and whose service call has not settled when its
\* 15000 ms have elapsed, still has its timer armed at that moment, so that the
\* timer fires and the tile ends with the timed-out error.
C1_TimerArmedWhenTimeoutElapses ==
    \A id \in LoadIds :
        (loads[id].phase = "awaiting" /\ loads[id].current /\ loads[id].remaining = 0)
            => loads[id].timer = "pending"

\* C2: a tile receives the timed-out error only from the timer of the latest
\* loadTile call for it, and only when the full 15000 ms have elapsed since
\* that call: the timer of an earlier call never fires.
C2_OnlyLatestTimerFires ==
    [][\A a \in Inst : \A i \in DOMAIN tiles[a] :
          (/\ i \in DOMAIN tiles'[a]
           /\ tiles'[a][i].error = TimeoutMsg
           /\ (tiles[a][i].error # TimeoutMsg \/ tiles[a][i].isLoading))
          => \E id \in LoadIds :
                /\ loads[id].inst = a /\ loads[id].index = i
                /\ loads[id].current
                /\ loads[id].remaining = 0
                /\ loads[id].timer = "pending"
                /\ loads'[id].timer = "fired"]_vars

\* a second call for a tile has cancelled the timer of the first, whose
\* 15000 ms have meanwhile elapsed while the second timer is still running
C2_Witness ==
    \E old, new \in LoadIds :
        /\ old # new
        /\ loads[old].inst = loads[new].inst /\ loads[old].index = loads[new].index
        /\ loads[old].phase = "awaiting" /\ loads[old].timer = "cancelled"
        /\ loads[old].remaining = 0
        /\ loads[new].timer = "pending" /\ loads[new].remaining > 0

\* C3: over the connected instances of the page, at most one tile has its
\* aggregation menu open.
OpenMenus ==
    { m \in Inst \X (1..MAX_TILES) :
        /\ connected(m[1])
        /\ m[2] \in DOMAIN tiles[m[1]]
        /\ tiles[m[1]][m[2]].isAggregationMenuOpen }

C3_AtMostOneOpenMenu == Cardinality(OpenMenus) <= 1

\* both instances are connected and rendered, and the open menu is in the
\* instance that connected first
C3_Witness ==
    /\ \A a \in Inst : connected(a) /\ instanceId[a] # 0
    /\ \E a \in Inst : instanceId[a] = 1 /\ <<a, 1>> \in OpenMenus

\* the step whose calls are o was a manual refresh on a
RefreshOn(o, a) == o # <<>> /\ Head(o) = <<"handleRefreshAllClick", a, 0>>

C5_IgnoresWheneverIdsDiffer ==
    [][\A a, b \in Inst :
          (connected(b) /\ RefreshOn(ops', a))
          => IF Truthy(cfg[a].recordId) /\ cfg[a].recordId # cfg[b].recordId
             THEN Silent(ops', b)
             ELSE LoadedEachTileOnce(ops', b)]_vars

\* C5, amended: a listening instance ignores the refresh signal exactly when
\* the signal's record id and its own record id are both non-empty and differ;
\* in every other case (an empty own record id included) it reloads each of
\* its tiles.
C5_IgnoresOnlyWhenBothIdsDiffer ==
    [][\A a, b \in Inst :
          (connected(b) /\ RefreshOn(ops', a))
          => IF /\ Truthy(cfg[a].recordId) /\ Truthy(cfg[b].recordId)
                /\ cfg[a].recordId # cfg[b].recordId
             THEN Silent(ops', b)
             ELSE LoadedEachTileOnce(ops', b)]_vars

\* a signal with a record id made a listening instance without record id
\* reload its tiles
C5_Witness ==
    \E a, b \in Inst :
        /\ RefreshOn(ops, a) /\ connected(b)
        /\ Truthy(cfg[a].recordId) /\ ~Truthy(cfg[b].recordId)
        /\ tiles[b] # <<>> /\ LoadedEachTileOnce(ops, b)

\* C6: a manual refresh on A makes A and every connected instance bound to
\* the same record id call loadTile exactly once for each of its tiles; a
\* disconnected instance calls none.
C6_RefreshReachesSameRecordOnce ==
    [][\A a, b \in Inst :
          RefreshOn(ops', a)
          => /\ (connected(b) /\ cfg[b].recordId = cfg[a].recordId)
                    => LoadedEachTileOnce(ops', b)
             /\ ~connected(b) => Silent(ops', b)]_vars

\* one refresh on A made A and B, both connected and bound to one record,
\* reload each of their tiles, and B's first tile reached the service
C6_Witness ==
    /\ RefreshOn(ops, "A")
    /\ connected("B")
    /\ Truthy(cfg["A"].recordId) /\ cfg["A"].recordId = cfg["B"].recordId
    /\ LoadedEachTileOnce(ops, "A") /\ LoadedEachTileOnce(ops, "B")
    /\ CallCount(ops, "getRollup", "B", 1) = 1

\* C7: when the child object or the child relationship field of the shared
\* configuration is empty, a loadTile call for tile i issues no service call
\* and leaves tile i not loading, with value and metadata cleared and with the
\* global configuration message, which names exactly the missing ones of the
\* two properties.
C7_IncompleteConfigStopsLoad ==
    \A a \in Inst : \A i \in DOMAIN tiles[a] :
        (/\ ~Truthy(cfg[a].childObjectApiName) \/ ~Truthy(cfg[a].relationshipFieldApiName)
         /\ CallCount(ops, "loadTile", a, i) > 0)
        => /\ CallCount(ops, "getRollup", a, i) = 0
           /\ ~tiles[a][i].isLoading
           /\ MetadataCleared(tiles[a][i])
           /\ IsGlobalConfigMessage(tiles[a][i].error)
           /\ ("Child Object" \in Range(tiles[a][i].error))
                <=> ~Truthy(cfg[a].childObjectApiName)
           /\ ("Relationship Field (lookup on child)" \in Range(tiles[a][i].error))
                <=> ~Truthy(cfg[a].relationshipFieldApiName)

\* loadTile ran for a tile of an instance whose relationship field is empty
\* and whose child object is set
C7_Witness ==
    \E a \in Inst : \E i \in DOMAIN tiles[a] :
        /\ Truthy(cfg[a].childObjectApiName)
        /\ ~Truthy(cfg[a].relationshipFieldApiName)
        /\ CallCount(ops, "loadTile", a, i) > 0
        /\ tiles[a][i].error # NULL

\* the shared configuration as the configuration rules see it: complete with
\* child object and relationship field set and the grandchild pair set in full
\* or not at all; lacking a child property with one of the two empty
SharedComplete(a) ==
    /\ Truthy(cfg[a].childObjectApiName)
    /\ Truthy(cfg[a].relationshipFieldApiName)
    /\ NonEmptyAfterTrim(cfg[a].grandchildObjectApiName)
            = NonEmptyAfterTrim(cfg[a].grandchildRelationshipFieldApiName)

ChildPropertyMissing(a) ==
    ~Truthy(cfg[a].childObjectApiName) \/ ~Truthy(cfg[a].relationshipFieldApiName)

\* C8: a loadTile call for a tile without aggregate field issues no service
\* call; with the shared configuration complete the tile gets the per-tile
\* message naming its index, and with a child property of the shared
\* configuration missing as well it gets the global configuration message.
C8_TileWithoutFieldStopsLoad ==
    \A a \in Inst : \A i \in DOMAIN tiles[a] :
        (/\ ~Truthy(tiles[a][i].aggregateFieldApiName)
         /\ CallCount(ops, "loadTile", a, i) > 0)
        => /\ CallCount(ops, "getRollup", a, i) = 0
           /\ ~tiles[a][i].isLoading
           /\ SharedComplete(a) => IsTileConfigMessage(tiles[a][i].error, i)
           /\ ChildPropertyMissing(a)
                => /\ tiles[a][i].error # NULL
                   /\ ~IsTileConfigMessage(tiles[a][i].error, i)
                   /\ ~Truthy(cfg[a].childObjectApiName)
                        => "Child Object" \in Range(tiles[a][i].error)

\* C9: when exactly one of the two grandchild properties is non-empty after
\* trimming, a loadTile call issues no service call and leaves the tile with
\* the global configuration message, which lists the other grandchild property
\* as missing.
C9_HalfGrandchildConfigStopsLoad ==
    \A a \in Inst : \A i \in DOMAIN tiles[a] :
        (/\ NonEmptyAfterTrim(cfg[a].grandchildObjectApiName)
                # NonEmptyAfterTrim(cfg[a].grandchildRelationshipFieldApiName)
         /\ CallCount(ops, "loadTile", a, i) > 0)
        => /\ CallCount(ops, "getRollup", a, i) = 0
           /\ IsGlobalConfigMessage(tiles[a][i].error)
           /\ (IF NonEmptyAfterTrim(cfg[a].grandchildObjectApiName)
               THEN "Relationship Field (lookup on grandchild)"
               ELSE "Grandchild Object") \in Range(tiles[a][i].error)

\* the load in slot id settles in this step: by the service, which frees the
\* slot, or by its timer
Settles(id) == loads[id].phase = "awaiting" /\ loads'[id].phase # "awaiting"

\* C10: the settlement of a load for tile i of an instance (by a result, a
\* business error, a rejection or the timeout) leaves every other tile of every
\* instance with all its fields, and leaves the stored timer of every other
\* tile and the timers of the loads of every other tile as they were.
C10_SettlementTouchesOnlyItsTile ==
    [][\A id \in LoadIds :
          Settles(id)
          => \A b \in Inst :
                /\ DOMAIN tiles'[b] = DOMAIN tiles[b]
                /\ \A j \in DOMAIN tiles[b] :
                      <<b, j>> # <<loads[id].inst, loads[id].index>>
                      => /\ tiles'[b][j] = tiles[b][j]
                         /\ StoredTimer(tileTimeouts', b, j) = StoredTimer(tileTimeouts, b, j)
                         /\ \A k \in LoadIds :
                               (loads[k].inst = b /\ loads[k].index = j)
                               => loads'[k].timer = loads[k].timer]_vars

\* tile 1 of an instance has settled with a value while tile 2 of the same
\* instance is still loading under its pending timer
C10_Witness ==
    \E a \in Inst : \E k \in LoadIds :
        /\ 2 \in DOMAIN tiles[a]
        /\ ~tiles[a][1].isLoading /\ tiles[a][1].value # NULL
        /\ tiles[a][2].isLoading
        /\ loads[k].inst = a /\ loads[k].index = 2 /\ loads[k].timer = "pending"
        /\ StoredTimer(tileTimeouts, a, 2) = k

\* the fields a service response leaves on its tile: the no-data message for
\* an empty response, the message of a rejection, the business error with the
\* value dropped and the metadata kept, or the value with its metadata
ResponseShown(tile, outcome) ==
    /\ ~tile.isLoading
    /\ IF outcome.kind = "null"
       THEN tile.error = NoDataMsg /\ MetadataCleared(tile)
       ELSE IF outcome.kind = "reject"
       THEN /\ tile.error = IF Truthy(outcome.errorMessage)
                            THEN outcome.errorMessage ELSE UnexpectedLoadMsg
            /\ MetadataCleared(tile)
       ELSE /\ tile.error = IF Truthy(outcome.errorMessage)
                            THEN outcome.errorMessage ELSE NULL
            /\ tile.value = IF Truthy(outcome.errorMessage) THEN NULL ELSE outcome.value
            /\ tile.recordCount = outcome.recordCount
            /\ tile.isCurrency = outcome.isCurrency
            /\ tile.isPercent = outcome.isPercent
            /\ tile.isDate = outcome.isDate
            /\ tile.fieldLabel = outcome.fieldLabel

\* no other call for the tile of the call in slot id is outstanding
AloneOnItsTile(id) ==
    \A k \in LoadIds :
        (k # id /\ loads[k].inst = loads[id].inst /\ loads[k].index = loads[id].index)
            => loads[k].phase = "free"

\* C11: when the service response of a load that is no longer the latest one
\* of its tile reaches the state update (after the newer load has settled, or
\* before), the tile's error, value and metadata become those of that
\* response: the last settlement to update wins.
C11_LastSettlementWins ==
    [][\A id \in LoadIds :
          (/\ loads[id].phase = "awaiting"
           /\ ~loads[id].current
           /\ loads'[id].phase = "free")
          => \A outcome \in ServiceOutcomes :
                ApexSettle(id, outcome)
                => ResponseShown(tiles'[loads[id].inst][loads[id].index], outcome)]_vars

\* an older load of a tile is still awaiting its response on a connected
\* instance after the newer load of that tile has settled and left its result
\* on the tile, and the run goes on
C11_Witness ==
    \E id \in LoadIds :
        /\ loads[id].phase = "awaiting" /\ ~loads[id].current
        /\ loads[id].timer = "cancelled"
        /\ connected(loads[id].inst)
        /\ AloneOnItsTile(id)
        /\ ~tiles[loads[id].inst][loads[id].index].isLoading
        /\ tiles[loads[id].inst][loads[id].index].value # NULL
        /\ steps < MaxSteps

\* C12: the firing of a load's timer leaves its service call outstanding, and
\* the response that arrives after the load has settled by timeout changes no
\* tile and no stored timer of any instance.
C12_LateResponseDiscarded ==
    [][\A id \in LoadIds :
          /\ (loads[id].timer = "pending" /\ loads'[id].timer = "fired")
                => loads'[id].phase = "raced"
          /\ (loads[id].phase = "raced" /\ loads'[id].phase = "free")
                => tiles' = tiles /\ tileTimeouts' = tileTimeouts]_vars

\* a load has settled by timeout and left the timed-out message on its tile,
\* its service call is still outstanding, and the run goes on
C12_Witness ==
    \E id \in LoadIds :
        /\ loads[id].phase = "raced" /\ loads[id].timer = "fired"
        /\ connected(loads[id].inst)
        /\ tiles[loads[id].inst][loads[id].index].error = TimeoutMsg
        /\ ~tiles[loads[id].inst][loads[id].index].isLoading
        /\ steps < MaxSteps

\* the ten kinds, and the raw values that spell one of them (or its alias AVG)
\* up to letter case and surrounding whitespace
CanonicalKinds ==
    {SUM, AVERAGE, MAX, MIN, COUNT, COUNT_DISTINCT, CONCATENATE,
     CONCATENATE_DISTINCT, FIRST, LAST}

KindSpelled(x) ==
    IF x = NULL THEN NULL
    ELSE IF ToUpperCase(Trim(x)) = AVG THEN AVERAGE
    ELSE IF ToUpperCase(Trim(x)) \in CanonicalKinds THEN ToUpperCase(Trim(x))
    ELSE NULL

\* every tile's stored type and every outstanding request's type is a kind
StoredTypesCanonical(t, l) ==
    /\ \A a \in Inst : \A i \in DOMAIN t[a] :
          /\ t[a][i].aggregateType \in CanonicalKinds
          /\ t[a][i].initialAggregationType \in CanonicalKinds
    /\ \A id \in LoadIds :
          l[id].phase # "free" => l[id].request.aggregateType \in CanonicalKinds

\* a tile's configured type that spells no kind makes the tile start with SUM
ConfiguredTypeValidated(t) ==
    \A a \in Inst : \A i \in DOMAIN t[a] :
        t[a][i].initialAggregationType =
            IF KindSpelled(tileProp(a, i, "InitialAggregationType")) = NULL THEN SUM
            ELSE KindSpelled(tileProp(a, i, "InitialAggregationType"))

\* the step is a click on the menu item with value v of tile i: it calls
\* loadTile for the tile first, or nothing when the value has length zero
MenuStep(a, i, v) ==
    /\ steps' = steps + 1
    /\ ~tiles'[a][i].isAggregationMenuOpen
    /\ IF v = <<>> THEN ops' = <<>>
       ELSE ops' # <<>> /\ Head(ops') = <<"loadTile", a, i>>
    /\ MenuClick(a, i, v)

\* C13 as stated: the type stored on a tile and the type of every request is
\* one of the ten kinds, a configured type that is empty or no kind gives SUM,
\* and so does every menu value that is empty or no kind.
C13_EmptyOrUnknownInputGivesSum ==
    [][/\ StoredTypesCanonical(tiles', loads')
       /\ ConfiguredTypeValidated(tiles')
       /\ \A a \in Inst : \A i \in DOMAIN tiles[a] : \A v \in MenuInputs :
             (MenuStep(a, i, v) /\ KindSpelled(v) = NULL)
             => tiles'[a][i].aggregateType = SUM]_vars

\* C13, amended: the type stored on a tile and the type of every request is
\* one of the ten kinds; a configured type that is empty or no kind gives SUM;
\* a menu value of length zero only closes the menu and leaves the tile's type
\* as it was, while any other menu value gives the kind it spells, or SUM when
\* it is blank or spells no kind.
C13_StoredTypesCanonical ==
    [][/\ StoredTypesCanonical(tiles', loads')
       /\ ConfiguredTypeValidated(tiles')
       /\ \A a \in Inst : \A i \in DOMAIN tiles[a] : \A v \in MenuInputs :
             MenuStep(a, i, v)
             => tiles'[a][i].aggregateType =
                    IF v = <<>> THEN tiles[a][i].aggregateType
                    ELSE IF KindSpelled(v) = NULL THEN SUM
                    ELSE KindSpelled(v)]_vars

\* the first tile was configured with a value that is no kind and started
\* with SUM, and the second tile, configured with COUNT, was switched to SUM
\* by a menu value that is no kind and has its request for SUM outstanding
C13_Witness ==
    /\ KindSpelled(cfg["A"].tileProps[1].InitialAggregationType) = NULL
    /\ Truthy(cfg["A"].tileProps[1].InitialAggregationType)
    /\ 2 \in DOMAIN tiles["A"]
    /\ tiles["A"][1].initialAggregationType = SUM
    /\ tiles["A"][2].initialAggregationType = COUNT
    /\ tiles["A"][2].aggregateType = SUM
    /\ \E id \in LoadIds :
          /\ loads[id].phase = "awaiting" /\ loads[id].current
          /\ loads[id].inst = "A" /\ loads[id].index = 2
          /\ loads[id].request.aggregateType = SUM

\* C14: the request of the latest load of a tile carries the tile's currently
\* selected aggregateType unchanged, COUNT included.
C14_RequestCarriesSelectedType ==
    \A id \in LoadIds :
        (loads[id].phase = "awaiting" /\ loads[id].current)
        => loads[id].request.aggregateType
                = tiles[loads[id].inst][loads[id].index].aggregateType

\* both grandchild properties of the instance are non-empty after trimming
BothGrandchildPropertiesSet(a) ==
    /\ NonEmptyAfterTrim(cfg[a].grandchildObjectApiName)
    /\ NonEmptyAfterTrim(cfg[a].grandchildRelationshipFieldApiName)

\* C15: an instance is in grandchild mode exactly when both grandchild
\* properties are non-empty after trimming, and every request it has sent
\* carries the two grandchild identifiers in that case and null for both
\* otherwise.
C15_GrandchildIdentifiersFollowMode ==
    /\ \A a \in Inst : isGrandchildMode(a) <=> BothGrandchildPropertiesSet(a)
    /\ \A id \in LoadIds :
          loads[id].phase # "free"
          => IF BothGrandchildPropertiesSet(loads[id].inst)
             THEN /\ loads[id].request.grandchildObjectApiName
                        = cfg[loads[id].inst].grandchildObjectApiName
                  /\ loads[id].request.grandchildRelationshipFieldApiName
                        = cfg[loads[id].inst].grandchildRelationshipFieldApiName
             ELSE /\ loads[id].request.grandchildObjectApiName = NULL
                  /\ loads[id].request.grandchildRelationshipFieldApiName = NULL

\* a request with both grandchild identifiers and a request with null for
\* both are outstanding, sent by two instances of one page
C15_Witness ==
    \E id, other \in LoadIds :
        /\ loads[id].phase = "awaiting" /\ loads[other].phase = "awaiting"
        /\ BothGrandchildPropertiesSet(loads[id].inst)
        /\ loads[id].request.grandchildObjectApiName = GrandchildObject
        /\ loads[id].request.grandchildRelationshipFieldApiName = GrandchildRelationship
        /\ ~BothGrandchildPropertiesSet(loads[other].inst)
        /\ loads[other].request.grandchildObjectApiName = NULL

\* a tile's configuration, its state, and the fields derived from the two
TileConfigOf(tile) ==
    <<tile.index, tile.label, tile.aggregateFieldApiName,
      tile.initialAggregationType, tile.filterCondition, tile.decimalPlaces>>

TileStateOf(tile) ==
    <<tile.aggregateType, tile.isLoading, tile.error, tile.value,
      tile.recordCount, tile.isCurrency, tile.isPercent, tile.isDate,
      tile.fieldLabel, tile.isAggregationMenuOpen>>

TileDerivedOf(tile) ==
    <<tile.fieldCategory, tile.displayValue, tile.hasRecordCount,
      tile.summaryRecordLabel, tile.summaryLabel, tile.aggregationMenuOptions,
      tile.gearMenuClass>>

\* the instance-level settings the derived fields read: the object label (the
\* decimal places are part of each tile's configuration)
SameInstanceSettings(a, b) == childObjectLabelSingular(a) = childObjectLabelSingular(b)

\* C16: two tiles with equal configuration, equal state and equal instance
\* settings have equal derived fields, whatever loads and responses each of
\* them went through.
C16_DerivedFieldsDependOnConfigAndState ==
    \A a, b \in Inst : \A i \in DOMAIN tiles[a] : \A j \in DOMAIN tiles[b] :
        (/\ SameInstanceSettings(a, b)
         /\ TileConfigOf(tiles[a][i]) = TileConfigOf(tiles[b][j])
         /\ TileStateOf(tiles[a][i]) = TileStateOf(tiles[b][j]))
        => TileDerivedOf(tiles[a][i]) = TileDerivedOf(tiles[b][j])

\* the step is a click on the gear of tile i: it sends the close-menus event
\* and flips the tile's menu
GearStep(a, i) ==
    /\ steps' = steps + 1
    /\ ops' = << <<"st_rollup_tile_grid_close_menus", a, i>> >>
    /\ tiles'[a][i].isAggregationMenuOpen # tiles[a][i].isAggregationMenuOpen
    /\ GearClick(a, i)

\* C17: a click on the gear of a tile changes, of that tile's fields, only
\* isAggregationMenuOpen and gearMenuClass, which change together; and a
\* second click on the same gear gives back the tile as it was before the
\* first, derived fields included.
C17_MenuToggleRoundTrip ==
    [][\A a \in Inst : \A i \in DOMAIN tiles[a] :
          GearStep(a, i)
          => /\ tiles'[a][i] =
                    [tiles[a][i] EXCEPT
                        !.isAggregationMenuOpen = ~@,
                        !.gearMenuClass = tiles'[a][i].gearMenuClass]
             /\ tiles'[a][i].gearMenuClass # tiles[a][i].gearMenuClass
             /\ handleGearClick(World', a, i).tiles[a][i] = tiles[a][i]]_vars

\* after the render, the menu of a tile was opened and closed again and
\* nothing else happened: both tiles are the loading tiles a grid that was
\* never clicked shows
C17_Witness ==
    /\ initialized["A"] /\ steps = 4
    /\ Len(ops) = 1 /\ ops[1][1] = "st_rollup_tile_grid_close_menus"
    /\ tiles["A"][1].aggregateType = LAST
    /\ \A i \in DOMAIN tiles["A"] :
          tiles["A"][i] =
            recomputeTileDerivedFields("A",
                ClearedTile(buildInitialTileConfig("A", i), TRUE, NULL))

\* what each raw dimension is to become: 1 for an absent, empty or
\* non-numeric value and for a number below 1, 5 for a number above 5, the
\* number itself in between (a value with a numeric prefix reads as the prefix)
ExpectedDimension(raw) ==
    CASE raw = <<"2">> -> 2
      [] raw = <<"3">> -> 3
      [] raw = <<"4">> -> 4
      [] raw = <<"5">> -> 5
      [] raw = <<"6">> -> 5
      [] raw = <<"1", "0", "0">> -> 5
      [] raw = <<" ", "4", " ">> -> 4
      [] raw = <<"2", ".", "7">> -> 2
      [] raw = <<"3", "x">> -> 3
      [] OTHER -> 1

\* C18: whatever the rows and columns values, each is clamped into 1..5 as
\* above, and the number of tiles of the connected instance is the smaller of
\* the product of the two and 25.
C18_DimensionsClampedAndSlotsCapped ==
    \A a \in Inst :
        connected(a)
        => /\ normalizedRows(a) = ExpectedDimension(cfg[a].rows)
           /\ normalizedColumns(a) = ExpectedDimension(cfg[a].columns)
           /\ normalizedRows(a) \in 1..5 /\ normalizedColumns(a) \in 1..5
           /\ Len(tiles[a]) =
                    IF ExpectedDimension(cfg[a].rows) * ExpectedDimension(cfg[a].columns) < 25
                    THEN ExpectedDimension(cfg[a].rows) * ExpectedDimension(cfg[a].columns)
                    ELSE 25
           /\ Len(tiles[a]) <= 25

\* an instance with 100 rows and 0 columns is connected and has 5 tiles, and
\* in another run one with 6 rows and 5 columns has 25
C18_Witness ==
    /\ connected("A")
    /\ \/ /\ cfg["A"].rows = <<"1", "0", "0">> /\ cfg["A"].columns = <<"0">>
          /\ Len(tiles["A"]) = 5
       \/ /\ cfg["A"].rows = <<"6">> /\ cfg["A"].columns = <<"5">>
          /\ Len(tiles["A"]) = 25
    /\ initialized["A"]

\* the number of slots of an instance, from its raw rows and columns
SlotCount(a) ==
    IF ExpectedDimension(cfg[a].rows) * ExpectedDimension(cfg[a].columns) < 25
    THEN ExpectedDimension(cfg[a].rows) * ExpectedDimension(cfg[a].columns)
    ELSE 25

\* C19: once an instance has been connected its tile array holds exactly the
\* indices 1..slotCount, each once and in ascending order, whatever loads,
\* settlements, clicks, signals and render errors have happened; and every
\* request handed to the service, in flight or just issued, is for an index
\* in 1..slotCount of its instance.
C19_TilesAreExactlyTheSlots ==
    /\ \A a \in Inst :
            (connected(a) \/ tiles[a] # <<>>)
            => /\ Len(tiles[a]) = SlotCount(a)
               /\ \A k \in 1..Len(tiles[a]) : tiles[a][k].index = k
    /\ \A id \in LoadIds :
            loads[id].phase # "free" => loads[id].index \in 1..SlotCount(loads[id].inst)
    /\ \A k \in 1..Len(ops) :
            ops[k][1] = "getRollup" => ops[k][3] \in 1..SlotCount(ops[k][2])

\* tile 1 of A shows a settled result while a request for tile 2 is in flight
C19_Witness ==
    /\ Len(tiles["A"]) = 2
    /\ ~tiles["A"][1].isLoading /\ tiles["A"][1].error = NULL
    /\ tiles["A"][1].recordCount # NULL
    /\ \E id \in LoadIds :
            loads[id].phase = "awaiting" /\ loads[id].inst = "A" /\ loads[id].index = 2

\* the text of a value between its first and its last non-blank character
InnerText(x) ==
    LET inked == { k \in 1..Len(x) : x[k] \notin {" ", "\t", "\n"} }
    IN  IF inked = {} THEN <<>>
        ELSE SubSeq(x, CHOOSE k \in inked : \A j \in inked : k <= j,
                       CHOOSE k \in inked : \A j \in inked : k >= j)

\* a lower-case letter and its capital are the same letter
SameLetter(c, d) ==
    c = d \/ \E l \in DOMAIN UpperOf : {c, d} = {l, UpperOf[l]}

\* two present values that differ only in letter case and surrounding blanks
DifferOnlyInCaseAndPadding(x, y) ==
    /\ x # NULL /\ y # NULL
    /\ Len(InnerText(x)) = Len(InnerText(y))
    /\ \A k \in 1..Len(InnerText(x)) : SameLetter(InnerText(x)[k], InnerText(y)[k])

\* the configured type of tile 1 of instance A, the raw value of the run
RawTypeOfRun == cfg["A"].tileProps[1].InitialAggregationType

\* C20: for the raw aggregation type x of the run, normalizing twice gives
\* what normalizing once gives; every raw type that differs from x only in
\* letter case or surrounding blanks has the same normal form; AVG in any case
\* becomes AVERAGE; an empty or absent x becomes null; and every type stored
\* on a tile by a connect or a menu choice is its own normal form.
C20_NormalizeIdempotentAndCaseBlind ==
    /\ normalizeAggTypeValue(normalizeAggTypeValue(RawTypeOfRun))
            = normalizeAggTypeValue(RawTypeOfRun)
    /\ \A y \in RawAggregationTypes \cup MenuInputs :
            DifferOnlyInCaseAndPadding(RawTypeOfRun, y)
            => normalizeAggTypeValue(y) = normalizeAggTypeValue(RawTypeOfRun)
    /\ (RawTypeOfRun # NULL /\ DifferOnlyInCaseAndPadding(RawTypeOfRun, <<"a", "v", "g">>))
            => normalizeAggTypeValue(RawTypeOfRun) = <<"A", "V", "E", "R", "A", "G", "E">>
    /\ RawTypeOfRun \in {NULL, <<>>} => normalizeAggTypeValue(RawTypeOfRun) = NULL
    /\ \A i \in DOMAIN tiles["A"] :
            /\ normalizeAggTypeValue(tiles["A"][i].aggregateType) = tiles["A"][i].aggregateType
            /\ normalizeAggTypeValue(tiles["A"][i].initialAggregationType)
                    = tiles["A"][i].initialAggregationType

\* the tile built from " avg" carries AVERAGE, and a menu choice has been made
\* on tile 2
C20_Witness ==
    /\ RawTypeOfRun = <<" ", "a", "v", "g">>
    /\ connected("A")
    /\ tiles["A"][1].initialAggregationType = <<"A", "V", "E", "R", "A", "G", "E">>
    /\ tiles["A"][2].aggregateType = <<"A", "V", "E", "R", "A", "G", "E">>

\* a step in which instance a catches a render error
RenderErrorStep(a) ==
    /\ steps' = steps + 1
    /\ ops' = <<>>
    /\ loads' = loads
    /\ \E e \in {<<"boom">>} : RenderError(a, e)

\* the generic render-error message, with or without the detail of the error
IsRenderErrorMessage(e) == e # NULL /\ Head(e) = Head(RenderErrorMsg)

\* the configuration message of either copy of the component
IsConfigurationMessage(e) ==
    e # NULL /\ Head(e) \in { "Rollup Tile Grid is not fully configured yet. Missing: ",
                               "Rollup tile is not fully configured. Missing: " }

\* C21: right after an instance catches a render error, each of its tiles is
\* not loading and carries one and the same message: the configuration
\* message when the shared configuration is incomplete, the generic
\* render-error message otherwise; and the tiles of the other instances are
\* as they were.
C21_RenderErrorShownOnEveryTile ==
    [][\A a \in Inst :
          RenderErrorStep(a)
          => /\ \A k \in DOMAIN tiles'[a] :
                    /\ ~tiles'[a][k].isLoading
                    /\ tiles'[a][k].error = tiles'[a][1].error
                    /\ IF SharedComplete(a)
                       THEN IsRenderErrorMessage(tiles'[a][k].error)
                       ELSE IsConfigurationMessage(tiles'[a][k].error)
             /\ \A b \in Inst \ {a} : tiles'[b] = tiles[b]]_vars

\* the step is a refresh, by the button of some instance, that calls loadTile
\* for tile i of a
RefreshLoadsTile(a, i) ==
    /\ \E b \in Inst : RefreshOn(ops', b)
    /\ CallCount(ops', "loadTile", a, i) > 0

\* the step is an aggregation type choice on tile i of a that calls loadTile
TypeChoiceLoadsTile(a, i) ==
    /\ ops' # <<>> /\ Head(ops') = <<"loadTile", a, i>>
    /\ CallCount(ops', "loadTile", a, i) = Len(ops') - CallCount(ops', "getRollup", a, i)
    /\ \E v \in MenuValues \ {<<>>} : MenuClick(a, i, v)

\* the step settles, by response or by timeout, a load of tile i of a
SettlesLoadOf(a, i) ==
    \E id \in LoadIds :
        /\ loads[id].inst = a /\ loads[id].index = i
        /\ Settles(id)

\* the step connects a, which builds its tiles anew
ConnectsInstance(a) == a \notin Range(listeners) /\ a \in Range(listeners')

\* the error of the tile and its service calls are left alone by the step
ErrorKept(a, i) ==
    /\ i \in DOMAIN tiles'[a]
    /\ tiles'[a][i].error = tiles[a][i].error
    /\ CallCount(ops', "getRollup", a, i) = 0

\* C22: a tile whose error is non-null keeps that error, and no service call
\* is issued for it, in every step but a refresh that invokes loadTile for it.
C22_ErrorKeptUntilRefresh ==
    [][\A a \in Inst : \A i \in DOMAIN tiles[a] :
          (tiles[a][i].error # NULL /\ ~RefreshLoadsTile(a, i)) => ErrorKept(a, i)]_vars

\* C22, as the code has it: a tile whose error is non-null keeps that error,
\* and no service call is issued for it, in every step but these: a refresh
\* or an aggregation type choice that invokes loadTile for it, the settlement
\* of a load of this tile that was still in flight, a render error caught by
\* its instance, and a new connection of its instance.  Gear clicks, window
\* clicks, menu closings, disconnection, timer ticks and what happens to other
\* tiles leave it in error.
C22_ErrorKeptUntilLoadSettlementOrRenderError ==
    [][\A a \in Inst : \A i \in DOMAIN tiles[a] :
          (/\ tiles[a][i].error # NULL
           /\ ~RefreshLoadsTile(a, i)
           /\ ~SettlesLoadOf(a, i)
           /\ ~ConnectsInstance(a)
           /\ ~TypeChoiceLoadsTile(a, i)
           /\ ~RenderErrorStep(a))
          => ErrorKept(a, i)]_vars

\* a tile in error has had its menu opened by a gear click
C22_Witness ==
    \E a \in Inst : \E i \in DOMAIN tiles[a] :
        /\ tiles[a][i].error # NULL
        /\ tiles[a][i].isAggregationMenuOpen
        /\ connected(a)
        /\ steps >= 3

\* the last step dispatched the configsave notification
ConfigSaveEmitted == \E k \in 1..Len(ops) : ops[k][1] = "configsave"

\* C23: when the Relationship Configuration screen has emitted configsave
\* after a save that worked, every connected grid instance has reloaded each
\* of its tiles: loadTile was called for every one of them.
C23_ConfigSaveReloadsEveryTile ==
    ConfigSaveEmitted
    => \A a \in Inst :
            connected(a) => \A i \in DOMAIN tiles[a] : CallCount(ops, "loadTile", a, i) > 0

\* tile i of a is there and shows its spinner
Loading(a, i) == i \in DOMAIN tiles[a] /\ tiles[a][i].isLoading

\* C24: the tile of the grid, when it is loading, stops loading in the end
\* unless its instance is disconnected first, however its loads overlap; this
\* needs no answer of the service, only that pending timers fire.
C24_LoadingEnds ==
    (Loading("A", 1) /\ connected("A")) ~> ~(Loading("A", 1) /\ connected("A"))

\* a tile shows the timeout message while its request is still unanswered
C24_Witness ==
    \E id \in LoadIds :
        /\ loads[id].phase = "raced" /\ loads[id].inst = "A"
        /\ connected("A")
        /\ tiles["A"][loads[id].index].error = TimeoutMsg
        /\ ~tiles["A"][loads[id].index].isLoading

\* C25: a tile that is loading has no error, no value, no record count, no
\* currency, percent or date flag, no field label, and displays "-".
C25_LoadingTileIsBlank ==
    \A a \in Inst : \A i \in DOMAIN tiles[a] :
        tiles[a][i].isLoading
        => /\ tiles[a][i].error = NULL
           /\ tiles[a][i].value = NULL
           /\ tiles[a][i].recordCount = NULL
           /\ ~tiles[a][i].isCurrency /\ ~tiles[a][i].isPercent /\ ~tiles[a][i].isDate
           /\ tiles[a][i].fieldLabel = NULL
           /\ tiles[a][i].displayValue = <<"-">>

\* a tile is loading again by a refresh that followed a settlement
C25_Witness ==
    \E a \in Inst : \E i \in DOMAIN tiles[a] :
        /\ tiles[a][i].isLoading
        /\ \E b \in Inst : RefreshOn(ops, b)
        /\ CallCount(ops, "getRollup", a, i) = 1
        /\ \A id \in LoadIds :
                (loads[id].inst = a /\ loads[id].index = i /\ loads[id].phase # "free")
                => loads[id].current
        /\ steps >= 4

\* the step is the service's answer, outcome, to the load id that was still
\* awaited
AnswerStep(id, outcome) ==
    /\ steps' = steps + 1
    /\ loads[id].phase = "awaiting"
    /\ loads'[id].phase = "free"
    /\ ops' = <<>>
    /\ ApexSettle(id, outcome)

\* the record count, the flags and the field label of the tile are those of
\* the response
MetadataTaken(tile, outcome) ==
    /\ tile.recordCount = outcome.recordCount
    /\ tile.isCurrency = outcome.isCurrency
    /\ tile.isPercent = outcome.isPercent
    /\ tile.isDate = outcome.isDate
    /\ tile.fieldLabel = outcome.fieldLabel

\* C26: when the service resolves an awaited load with a response that
\* carries an error message, the tile is left not loading, with that message
\* as its error, with no value and "-" displayed, and with the record count,
\* the flags and the field label of the response.
C26_BusinessErrorKeepsMetadata ==
    [][\A id \in LoadIds : \A outcome \in ServiceOutcomes :
          (/\ outcome.kind = "data"
           /\ Truthy(outcome.errorMessage)
           /\ AnswerStep(id, outcome))
          => /\ ~tiles'[loads[id].inst][loads[id].index].isLoading
             /\ tiles'[loads[id].inst][loads[id].index].error = outcome.errorMessage
             /\ tiles'[loads[id].inst][loads[id].index].value = NULL
             /\ tiles'[loads[id].inst][loads[id].index].displayValue = <<"-">>
             /\ MetadataTaken(tiles'[loads[id].inst][loads[id].index], outcome)]_vars

\* a tile shows the service's "Invalid field" with the record count and the
\* field label that came with it
C26_Witness ==
    \E a \in Inst : \E i \in DOMAIN tiles[a] :
        /\ tiles[a][i].error = <<"Invalid field">>
        /\ tiles[a][i].recordCount = <<"3">>
        /\ tiles[a][i].isPercent
        /\ tiles[a][i].fieldLabel = <<"P">>
        /\ tiles[a][i].displayValue = <<"-">>

\* C27: when the service resolves an awaited load with a response that
\* carries no error message, the tile is left not loading, without error, with
\* the value, the record count, the flags and the field label of the response,
\* and with the aggregate type and the menu state it had before.
C27_SuccessAdoptsResponse ==
    [][\A id \in LoadIds : \A outcome \in ServiceOutcomes :
          (/\ outcome.kind = "data"
           /\ ~Truthy(outcome.errorMessage)
           /\ AnswerStep(id, outcome))
          => /\ ~tiles'[loads[id].inst][loads[id].index].isLoading
             /\ tiles'[loads[id].inst][loads[id].index].error = NULL
             /\ tiles'[loads[id].inst][loads[id].index].value = outcome.value
             /\ MetadataTaken(tiles'[loads[id].inst][loads[id].index], outcome)
             /\ tiles'[loads[id].inst][loads[id].index].aggregateType
                    = tiles[loads[id].inst][loads[id].index].aggregateType
             /\ tiles'[loads[id].inst][loads[id].index].isAggregationMenuOpen
                    = tiles[loads[id].inst][loads[id].index].isAggregationMenuOpen]_vars

\* a tile whose menu was opened while it was loading shows the result 42
C27_Witness ==
    \E a \in Inst : \E i \in DOMAIN tiles[a] :
        /\ tiles[a][i].value = <<"4", "2">>
        /\ tiles[a][i].error = NULL /\ ~tiles[a][i].isLoading
        /\ tiles[a][i].fieldLabel = <<"A", "m", "t">>
        /\ tiles[a][i].isAggregationMenuOpen

\* C28: when the service's answer settles a load, the timer of every other
\* load that is pending stays pending: a settlement cancels no timer but the
\* one its own load started.
C28_SettlementCancelsOwnTimerOnly ==
    [][\A id \in LoadIds :
          (loads[id].phase = "awaiting" /\ loads'[id].phase = "free")
          => \A other \in LoadIds \ {id} :
                loads[other].timer = "pending" => loads'[other].timer = "pending"]_vars

\* a load of the tile of load id, other than id, is still awaited after the step
AnotherStillAwaited(id) ==
    \E other \in LoadIds \ {id} :
        /\ loads'[other].phase = "awaiting"
        /\ loads'[other].inst = loads[id].inst
        /\ loads'[other].index = loads[id].index

\* C29: when the service's answer to a load leaves its tile settled without
\* error and with no other load of the tile still awaited, the request of that
\* load carried the aggregate type the tile has now: what the tile shows
\* belongs to its current type.
C29_ShownResultMatchesCurrentType ==
    [][\A id \in LoadIds :
          (/\ loads[id].phase = "awaiting" /\ loads'[id].phase = "free"
           /\ connected(loads[id].inst)
           /\ tiles'[loads[id].inst][loads[id].index].error = NULL
           /\ ~tiles'[loads[id].inst][loads[id].index].isLoading
           /\ ~AnotherStillAwaited(id))
          => loads[id].request.aggregateType
                = tiles'[loads[id].inst][loads[id].index].aggregateType]_vars

\* C30: a tile with an error has no value and displays "-".
C30_ErrorAndValueNeverCoexist ==
    \A a \in Inst : \A i \in DOMAIN tiles[a] :
        tiles[a][i].error # NULL
        => /\ tiles[a][i].value \in {NULL, <<>>}
           /\ tiles[a][i].displayValue = <<"-">>

\* C31: every call of the service that is outstanding carries a parentId that
\* is not empty: no request is issued for an instance without recordId.
C31_NoRequestWithoutParentId ==
    \A id \in LoadIds :
        loads[id].phase # "free" => Truthy(loads[id].request.parentId)

\* C32: the step in which an instance is rendered for the first time with a
\* recordId (its _initialized flag is set) leaves every tile of the instance
\* Loading or Settled with an error, the error being the global configuration
\* error when the shared configuration is incomplete; and the flag is never
\* reset, so that the initial load runs once.
C32_FirstRenderLeavesNoTileIdle ==
    [][\A a \in Inst :
          /\ (~initialized[a] /\ initialized'[a])
             => \A i \in DOMAIN tiles'[a] :
                   /\ tiles'[a][i].isLoading \/ tiles'[a][i].error # NULL
                   /\ globalConfigError(a) # NULL
                      => tiles'[a][i].error = globalConfigError(a)
          /\ initialized[a] => initialized'[a]]_vars

\* the category the claim states for a tile, from its stored category and flags
ExpectedCategory(tile) ==
    CASE tile.isDate -> "date"
      [] ~tile.isDate /\ (tile.isCurrency \/ tile.isPercent) -> "numeric"
      [] OTHER -> IF tile.fieldCategory = "" THEN "unknown" ELSE tile.fieldCategory

\* the resolution of the copy that runs
resolvedCategoryOf(tile) ==
    IF build = "legacy" THEN resolveFieldCategory_legacy(tile)
    ELSE resolveFieldCategory(tile)

MenuKindsInBaseOrder ==
    <<AVERAGE, CONCATENATE, CONCATENATE_DISTINCT, COUNT, COUNT_DISTINCT, MAX, MIN, SUM>>

\* the allow-list stated for a category
AllowListOf(category) ==
    CASE category = "numeric" ->
            {SUM, AVERAGE, MAX, MIN, COUNT, COUNT_DISTINCT, FIRST, LAST}
      [] category = "text" ->
            {CONCATENATE, CONCATENATE_DISTINCT, COUNT, COUNT_DISTINCT, FIRST, LAST}
      [] category = "date" -> {MAX, MIN, COUNT, COUNT_DISTINCT}
      [] OTHER -> Range(MenuKindsInBaseOrder)

ExpectedMenuKinds(category) ==
    SelectSeq(MenuKindsInBaseOrder, LAMBDA kind : kind \in AllowListOf(category))

SelectedOptions(tile) ==
    { k \in DOMAIN tile.aggregationMenuOptions :
        tile.aggregationMenuOptions[k].isSelected }

\* C34: the menu options of every tile are the base list, in its order,
\* restricted to the allow-list of the tile's resolved category (all eight for
\* the unknown category); an option is selected exactly if its value is the
\* tile's aggregate type, so at most one option is selected.
C34_MenuOptionsFollowCategory ==
    \A a \in Inst : \A i \in DOMAIN tiles[a] :
        /\ [k \in DOMAIN tiles[a][i].aggregationMenuOptions |->
                tiles[a][i].aggregationMenuOptions[k].value]
             = ExpectedMenuKinds(resolvedCategoryOf(tiles[a][i]))
        /\ \A k \in DOMAIN tiles[a][i].aggregationMenuOptions :
                tiles[a][i].aggregationMenuOptions[k].isSelected
                <=> tiles[a][i].aggregationMenuOptions[k].value = tiles[a][i].aggregateType
        /\ Cardinality(SelectedOptions(tiles[a][i])) <= 1

\* a tile of the date category offers Count, Count Distinct, Max and Min, with
\* Count selected
C34_Witness ==
    /\ 2 \in DOMAIN tiles["A"]
    /\ resolvedCategoryOf(tiles["A"][2]) = "date"
    /\ Len(tiles["A"][2].aggregationMenuOptions) = 4
    /\ SelectedOptions(tiles["A"][2]) = {1}

\* C35: a tile whose resolved category is numeric, text or date has an
\* aggregate type on that category's allow-list.
C35_AggregateTypeAllowedForCategory ==
    \A a \in Inst : \A i \in DOMAIN tiles[a] :
        resolvedCategoryOf(tiles[a][i]) \in {"numeric", "text", "date"}
        => tiles[a][i].aggregateType
              \in getAllowedAggregationsForCategory(resolvedCategoryOf(tiles[a][i]))

\* the step is a click on the gear of tile i of instance a
GearClicked(a, i) ==
    /\ steps' = steps + 1
    /\ ops' = << <<"st_rollup_tile_grid_close_menus", a, i>> >>
    /\ GearClick(a, i)

MenuOpen(t, a, i) == t[a][i].isAggregationMenuOpen

\* C36: the ids of the instances that have one are pairwise distinct and an
\* id, once given, stays; and a click on the gear of a tile flips the menu of
\* that tile (the instance does not obey the close signal it sends), leaves
\* every other menu of the instance closed, and closes the menus of every
\* other connected instance.
C36_IdsDistinctAndOwnSignalIgnored ==
    [][/\ \A a, b \in Inst :
             (a # b /\ instanceId'[a] # 0 /\ instanceId'[b] # 0)
             => instanceId'[a] # instanceId'[b]
       /\ \A a \in Inst : instanceId[a] # 0 => instanceId'[a] = instanceId[a]
       /\ \A a \in Inst : \A i \in DOMAIN tiles[a] :
             GearClicked(a, i)
             => /\ MenuOpen(tiles', a, i) = ~MenuOpen(tiles, a, i)
                /\ \A j \in DOMAIN tiles'[a] \ {i} : ~MenuOpen(tiles', a, j)
                /\ \A b \in Inst \ {a} :
                      connected(b) => \A j \in DOMAIN tiles'[b] : ~MenuOpen(tiles', b, j)
      ]_vars

\* both instances are connected under different ids, the menu of the second
\* tile of A is open after five steps, and no other menu is
C36_Witness ==
    /\ \A a \in Inst : connected(a) /\ instanceId[a] # 0
    /\ instanceId["A"] # instanceId["B"]
    /\ steps >= 5
    /\ 2 \in DOMAIN tiles["A"]
    /\ MenuOpen(tiles, "A", 2) /\ ~MenuOpen(tiles, "A", 1) /\ ~MenuOpen(tiles, "B", 1)

\* the step is a click that reaches the window: on the root of instance
\* target, or outside every instance
ClickStep(target) ==
    /\ steps' = steps + 1
    /\ loads' = loads
    /\ listeners' = listeners
    /\ initialized' = initialized
    /\ WindowClick(target)

\* every tile of instance a is, after the step, the tile it was with its menu
\* closed: no field but isAggregationMenuOpen and the gearMenuClass derived
\* from it differs
OnlyMenusClosed(a) ==
    /\ DOMAIN tiles'[a] = DOMAIN tiles[a]
    /\ \A i \in DOMAIN tiles[a] :
          /\ ~MenuOpen(tiles', a, i)
          /\ tiles'[a][i] =
                [tiles[a][i] EXCEPT
                    !.isAggregationMenuOpen = FALSE,
                    !.gearMenuClass = tiles'[a][i].gearMenuClass]

\* C37 as stated: a click on the root of an instance or outside it closes the
\* menus of that instance, sends no close-menus event, changes no other field
\* of a tile, and leaves every other instance as it was.
C37_ClickLeavesOtherInstancesUnchanged ==
    [][\A target \in Inst \cup {"outside"} :
          ClickStep(target)
          => /\ ops' = <<>>
             /\ \A a \in Inst :
                   connected(a)
                   => /\ OnlyMenusClosed(a)
                      /\ \A b \in Inst \ {a} : tiles'[b] = tiles[b]]_vars

\* C37, amended: a click on the root of an instance or outside it closes the
\* menus of that instance, sends no close-menus event and changes no other
\* field of a tile; every other connected instance, for which the click lies
\* outside, has its menus closed in the same way, and an instance that is not
\* connected is left as it was, as are the timers.
C37_ClickClosesMenusOfEveryConnectedInstance ==
    [][\A target \in Inst \cup {"outside"} :
          ClickStep(target)
          => /\ ops' = <<>>
             /\ tileTimeouts' = tileTimeouts
             /\ \A a \in Inst :
                   IF connected(a) THEN OnlyMenusClosed(a)
                   ELSE tiles'[a] = tiles[a]]_vars

\* five steps after the start both instances are connected, the tile of A is
\* still loading, no menu is open and the last step called nothing: a menu
\* was opened and a click closed it
C37_Witness ==
    /\ steps = 5 /\ ops = <<>>
    /\ \A a \in Inst : connected(a)
    /\ initialized["A"] /\ ~initialized["B"]
    /\ tiles["A"][1].isLoading
    /\ loads[1].remaining = LOAD_TIMEOUT_MS
    /\ OpenMenus = {}

\* C38: when the screen waits for no option list and no load has failed, the
\* child relationship-field options and the grandchild-object options are the
\* lists the controller returns for the selected child object (empty when
\* none is selected), and the grandchild relationship-field options are the
\* list it returns for the selected grandchild object of that child.
C38_OptionsBelongToSelection ==
    (screen.connected /\ screen.calls = <<>> /\ screen.loadError = NULL)
    => /\ screen.childRelationshipFieldOptions =
            IF Truthy(screen.childObjectValue)
            THEN getChildRelationshipFields(screen.parentObjectApiName,
                                            screen.childObjectValue)
            ELSE <<>>
       /\ screen.grandchildObjectOptions =
            IF Truthy(screen.childObjectValue)
            THEN getGrandchildObjects(screen.parentObjectApiName, screen.childObjectValue)
            ELSE <<>>
       /\ (Truthy(screen.childObjectValue) /\ Truthy(screen.grandchildObjectValue))
          => screen.grandchildRelationshipFieldOptions =
                getGrandchildRelationshipFields(screen.parentObjectApiName,
                    screen.childObjectValue, screen.grandchildObjectValue)

\* no operation of the screen (initialization, reload of dependent options,
\* save) waits for an answer
NothingInFlight == screen.calls = <<>> /\ screen.saving = 0

\* C39: when no operation of the screen is in flight, no child object
\* selected means no child relationship field, no grandchild object and no
\* grandchild relationship field selected, and no grandchild object selected
\* means no grandchild relationship field selected.
C39_DependentSelectionsFollowParent ==
    (screen.connected /\ NothingInFlight)
    => /\ screen.childObjectValue = NULL
          => /\ screen.childRelationshipFieldValue = NULL
             /\ screen.grandchildObjectValue = NULL
             /\ screen.grandchildRelationshipFieldValue = NULL
       /\ screen.grandchildObjectValue = NULL
          => screen.grandchildRelationshipFieldValue = NULL

\* C40: the spinner flag isLoading is TRUE exactly while at least one
\* operation of the screen (initialization, reload of dependent options,
\* save) is in flight, also when two operations overlap and one of them
\* finishes first.
C40_SpinnerShownExactlyWhileBusy ==
    screen.isLoading <=> ~NothingInFlight

=============================================================================
